---- MODULE Spec2Model ----
(***************************************************************************)
(* SkyGuard drone-swarm simulation: the per-tick engine of                 *)
(* src/components/DroneSimulation.tsx (class Drone and updateSimulation).  *)
(*                                                                         *)
(* Numbers are fixed point.  A position is an integer count of 1/U of a    *)
(* source unit (U = 100, the resolution of the slowest speed, 1.2 * 0.2),  *)
(* a health is an integer count of 1/HP of a health point (HP = 10, the    *)
(* resolution of the jamming damage 0.1), a time is in milliseconds.       *)
(*                                                                         *)
(* The world is the line y = 300 through the assets of the 'convoy' map:   *)
(* every entity of the model has y = 300, so dy = 0 in every distance and  *)
(* every move, the unit direction of moveTo is exactly +1 or -1, and vy    *)
(* stays 0.  Only x and vx are kept.                                       *)
(***************************************************************************)
EXTENDS Integers, Sequences, FiniteSets

\* ------------------------------------------------------------------
\* Fixed-point resolutions
\* ------------------------------------------------------------------
U == 100
HP == 10

\* ------------------------------------------------------------------
\* Constants of the source (lines 7-17), in model units
\* ------------------------------------------------------------------
CANVAS_WIDTH == 800 * U
THREATENING_RANGE == 150 * U
FIRING_RANGE == 50 * U
JAMMING_RANGE == 100 * U
DRONE_SPEED == 2 * U
BOMBER_SPEED == (12 * U) \div 10
HOSTILE_SPEED == (15 * U) \div 10
UI_UPDATE_RATE == 100
FIRE_COOLDOWN == 100
LOST_RADIUS == 300 * U
RECONNECT_RADIUS == 100 * U
ENGAGE_DISTANCE == 200 * U
DEFENSIVE_RADIUS == 100 * U
SEPARATION_DIST == 40 * U
SLOT_SPACING == 50 * U
SLOT_TOLERANCE == 5 * U
TRAIL_CAPACITY == 10
JAM_DAMAGE == HP \div 10

\* null of `target` (a Drone reference in the source, the referent's id here:
\* ids are unique within the hostile side and a Drone object keeps its id).
NoTarget == "null"
\* null of `lostCoords`: the empty sequence; a mark is <<x>>.
NoCoords == << >>

Abs(n) == IF n < 0 THEN -n ELSE n
Sign(n) == IF n < 0 THEN -1 ELSE IF n > 0 THEN 1 ELSE 0

RECURSIVE SumX(_)
SumX(s) == IF s = << >> THEN 0 ELSE Head(s).x + SumX(Tail(s))

\* ------------------------------------------------------------------
\* class Drone
\* ------------------------------------------------------------------
\* constructor (lines 97-113)
NewDrone(id, x, isFriendly, type) ==
  [id |-> id, x |-> x, vx |-> 0, isFriendly |-> isFriendly, type |-> type,
   target |-> NoTarget, health |-> IF type = "bomber" THEN 150 * HP ELSE 100 * HP,
   isEngaging |-> FALSE, trail |-> << >>, lastFired |-> 0,
   lostCoords |-> NoCoords, isJammed |-> FALSE, jammingTargets |-> << >>]

\* calculateDistance (lines 115-119) on the line: sqrt(dx*dx) = |dx|.
calculateDistance(a, b) == Abs(a.x - b.x)

\* A moveTo that never drops the oldest trail entry.
moveToKeepsAll(d, tnum, tden, speed) ==
  LET dxn == tnum - d.x * tden
      moved == IF Abs(dxn) > U * tden
               THEN [d EXCEPT !.vx = Sign(dxn) * speed, !.x = d.x + Sign(dxn) * speed]
               ELSE d
  IN [moved EXCEPT !.trail = <<moved.x>> \o moved.trail]

\* moveTo (lines 121-138).  The target is the rational tnum/tden (a centroid is
\* a mean); dist > 1 is |tnum - x*tden| > U*tden.
moveTo(d, tnum, tden, speed) ==
  LET dxn == tnum - d.x * tden
      moved == IF Abs(dxn) > U * tden
               THEN [d EXCEPT !.vx = Sign(dxn) * speed, !.x = d.x + Sign(dxn) * speed]
               ELSE d
      tr == <<moved.x>> \o moved.trail
  IN [moved EXCEPT !.trail = IF Len(tr) > TRAIL_CAPACITY
                             THEN SubSeq(tr, 1, TRAIL_CAPACITY) ELSE tr]

\* A fireAt without its cooldown test.
CanFireAlways(d, now) == TRUE

\* fireAt line 141: the wall-clock cooldown.
CanFireNow(d, now) == ~(now - d.lastFired < FIRE_COOLDOWN)

\* A slip of sign in the damage: target.health += damage.
ApplyDamageAdds(health, damage) == health + damage

\* fireAt line 144: target.health -= damage.
ApplyDamage(health, damage) == health - damage

\* Index (1-based) of the first element of xs nearest to d: the reduce of lines
\* 171-173 and 177-179 and the forEach of lines 295-312 (strict <, first wins).
NearestIndex(d, xs) ==
  CHOOSE k \in 1..Len(xs) :
    /\ \A j \in 1..Len(xs) : calculateDistance(d, xs[k]) <= calculateDistance(d, xs[j])
    /\ \A j \in 1..(k - 1) : calculateDistance(d, xs[j]) > calculateDistance(d, xs[k])

\* min over the assets of the hostile's distance (lines 347-355, 401-405);
\* -1 stands for Infinity (no asset).
MinAssetDist(hostile, groundAssets) ==
  IF groundAssets = << >> THEN -1
  ELSE calculateDistance(hostile, groundAssets[NearestIndex(hostile, groundAssets)])

\* isCriticalThreat (lines 400-407)
isCriticalThreat(hostile, groundAssets) ==
  /\ groundAssets # << >>
  /\ MinAssetDist(hostile, groundAssets) <= THREATENING_RANGE

\* A score whose type term does not look at the type of the scoring drone.
calculateThreatScoreAnyScorer(self, i, hostile, groundAssets, friendlyDrones, hasCommunication) ==
  LET targetPriority ==
        IF groundAssets = << >> THEN 5
        ELSE LET p == groundAssets[NearestIndex(hostile, groundAssets)].priority
             IN IF p = 0 THEN 5 ELSE p
      critical == IF isCriticalThreat(hostile, groundAssets)
                  THEN 1000 + targetPriority * 10 ELSE 0
      friendlyBombersExist ==
        \E k \in 1..Len(friendlyDrones) :
           friendlyDrones[k].type = "bomber" /\ friendlyDrones[k].health > 0
      typeTerm == IF friendlyBombersExist
                  THEN (IF hostile.type = "drone" THEN 2000 ELSE -500)
                  ELSE (IF hostile.type = "bomber" THEN 500 ELSE 0)
      engagementCount ==
        Cardinality({k \in 1..Len(friendlyDrones) :
                       k # i /\ friendlyDrones[k].target = hostile.id})
      saturation == IF hasCommunication THEN engagementCount * 30 ELSE 0
  IN [base |-> critical + typeTerm + 100 - saturation,
      dist |-> calculateDistance(self, hostile)]

\* calculateThreatScore (lines 343-398).  The score is base + 50/(distToSelf+1):
\* base is the integer part (a multiple of 10), dist the distance to self.
calculateThreatScore(self, i, hostile, groundAssets, friendlyDrones, hasCommunication) ==
  LET targetPriority ==
        IF groundAssets = << >> THEN 5
        ELSE LET p == groundAssets[NearestIndex(hostile, groundAssets)].priority
             IN IF p = 0 THEN 5 ELSE p
      critical == IF isCriticalThreat(hostile, groundAssets)
                  THEN 1000 + targetPriority * 10 ELSE 0
      friendlyBombersExist ==
        \E k \in 1..Len(friendlyDrones) :
           friendlyDrones[k].type = "bomber" /\ friendlyDrones[k].health > 0
      typeTerm == IF self.type = "drone" /\ friendlyBombersExist
                  THEN (IF hostile.type = "drone" THEN 2000 ELSE -500)
                  ELSE (IF hostile.type = "bomber" THEN 500 ELSE 0)
      engagementCount ==
        Cardinality({k \in 1..Len(friendlyDrones) :
                       k # i /\ friendlyDrones[k].target = hostile.id})
      saturation == IF hasCommunication THEN engagementCount * 30 ELSE 0
  IN [base |-> critical + typeTerm + 100 - saturation,
      dist |-> calculateDistance(self, hostile)]

\* threatScore > highestThreatLevel (line 252), exactly, on
\* s.base + 50/(s.dist/U + 1) = s.base + 50*U/(s.dist + U).
\* With a = s.dist + U, b = t.dist + U and k = t.base - s.base:
\*   s > t  <=>  50*U*(b - a) > k*a*b.
\* The proximity term lies in (0, 50], and is below 10 once a > 5*U, which
\* decides the cases where the product would leave the 32-bit integers.
ScoreGreater(s, t) ==
  LET a == s.dist + U
      b == t.dist + U
      k == t.base - s.base
  IN IF k = 0 THEN a < b
     ELSE IF k >= 50 THEN FALSE
     ELSE IF k <= -50 THEN TRUE
     ELSE IF k > 0 THEN (IF a > 5 * U THEN FALSE ELSE 50 * U * (b - a) > k * a * b)
     ELSE (IF b > 5 * U THEN TRUE ELSE 50 * U * (b - a) > k * a * b)

\* A wrong saturation threshold: currentEngagers/length < 0.9.
shouldEngageLoose(self, i, target, friendlyDrones) ==
  \/ calculateDistance(self, target) < ENGAGE_DISTANCE
  \/ 10 * Cardinality({k \in 1..Len(friendlyDrones) :
                         k # i /\ friendlyDrones[k].target = target.id})
       < 9 * Len(friendlyDrones)

\* An engagement test that looks at the distance only.
shouldEngageNear(self, i, target, friendlyDrones) ==
  calculateDistance(self, target) < ENGAGE_DISTANCE

\* shouldEngage (lines 409-421): myDistance < 200 || currentEngagers/length < 0.3
shouldEngage(self, i, target, friendlyDrones) ==
  LET myDistance == calculateDistance(self, target)
      currentEngagers ==
        Cardinality({k \in 1..Len(friendlyDrones) :
                       k # i /\ friendlyDrones[k].target = target.id})
  IN myDistance < ENGAGE_DISTANCE \/ 10 * currentEngagers < 3 * Len(friendlyDrones)

\* ------------------------------------------------------------------
\* Drone.update, friendly side (lines 160-282).  An update takes the three
\* live collections and returns them as the update leaves them, with a log of
\* what the update did (the log is observation only; nothing reads it back).
\* ------------------------------------------------------------------
NoLog == [mode |-> "none", rescue |-> FALSE, fired |-> FALSE, firedKind |-> "none",
          firedAt |-> NoTarget, firedAtHealth |-> 0, selected |-> NoTarget,
          selectedHealth |-> 0, critical |-> FALSE, distance |-> 0,
          pursued |-> FALSE, moves |-> 0, xAtLostTest |-> 0, farAtLostTest |-> FALSE,
          slotOffset2 |-> 0]

\* An autonomous mode that still damages the hostiles within jamming range.
AutonomousJamming(F, H, A, i, groundThreat, jitter) ==
  [f |-> F,
   h |-> [k \in 1..Len(H) |->
            IF H[k].health > 0 /\ calculateDistance(F[i], H[k]) <= JAMMING_RANGE
            THEN [H[k] EXCEPT !.isJammed = TRUE, !.health = H[k].health - JAM_DAMAGE]
            ELSE H[k]],
   a |-> A,
   log |-> [NoLog EXCEPT !.mode = "autonomous"]]

\* Autonomous mode (lines 167-187).  groundThreat is Math.random() < 0.7 and
\* jitter is the idle hover's Math.random() - 0.5 along x.
Autonomous(F, H, A, i, groundThreat, jitter) ==
  LET self == F[i]
      me == IF groundThreat /\ Len(A) > 0
            THEN moveTo(self, A[NearestIndex(self, A)].x, 1, DRONE_SPEED)
            ELSE IF Len(H) > 0
            THEN moveTo(self, H[NearestIndex(self, H)].x, 1, DRONE_SPEED)
            ELSE [self EXCEPT !.x = self.x + jitter]
  IN [f |-> [F EXCEPT ![i] = me], h |-> H, a |-> A,
      log |-> [NoLog EXCEPT !.mode = "autonomous",
                            !.moves = IF me.x # self.x THEN 1 ELSE 0]]

\* A reconnection test that never succeeds.
ReconnectsNever(self, friend) == FALSE

\* The reconnection test of lines 196-197: dist < 100.
Reconnects(self, friend) == calculateDistance(self, friend) < RECONNECT_RADIUS

\* A rescue guard that lets every lost neighbour draw a move.
MayRescueAgain(performingRescue) == TRUE

\* The guard of the rescue move (line 199): else if (!performingRescue).
MayRescue(performingRescue) == ~performingRescue

RECURSIVE RescueLoop(_, _, _, _)
\* The forEach over the friends of lines 194-205, from friend j on.
RescueLoop(F, i, j, performingRescue) ==
  IF j > Len(F) THEN [f |-> F, performingRescue |-> performingRescue]
  ELSE IF j # i /\ F[j].lostCoords # NoCoords
  THEN IF Reconnects(F[i], F[j])
       THEN RescueLoop([F EXCEPT ![j].lostCoords = NoCoords], i, j + 1, performingRescue)
       ELSE IF MayRescue(performingRescue)
       THEN RescueLoop([F EXCEPT ![i] = moveTo(F[i], F[j].lostCoords[1], 1,
                                                (DRONE_SPEED * 8) \div 10)],
                       i, j + 1, TRUE)
       ELSE RescueLoop(F, i, j + 1, performingRescue)
  ELSE RescueLoop(F, i, j + 1, performingRescue)

\* The distance test of line 211, on a roster of at least two (line 208):
\* |x - avgX| > 300 is |n*x - sum| > 300*n.
FarFromSwarm(F, i) ==
  Len(F) > 1 /\ Abs(Len(F) * F[i].x - SumX(F)) > LOST_RADIUS * Len(F)

\* A drone that never records a lost-mark.
MarkLostNever(F, i) == F

\* Mark self as lost (lines 208-214).
MarkLost(F, i) ==
  IF FarFromSwarm(F, i) /\ F[i].lostCoords = NoCoords
  THEN [F EXCEPT ![i].lostCoords = <<F[i].x>>]
  ELSE F

\* The jamming test of line 225.
InJammingReach(self, h) ==
  h.health > 0 /\ calculateDistance(self, h) <= JAMMING_RANGE

\* Jamming that damages but forgets the mark.
JamHostileNoMark(h) == [h EXCEPT !.health = h.health - JAM_DAMAGE]

\* What jamming does to one hostile (lines 226-228).
JamHostile(h) == [h EXCEPT !.isJammed = TRUE, !.health = ApplyDamage(h.health, JAM_DAMAGE)]

\* Jamming that wears down every drone in reach, of either side.
JammingBothSides(F, H, i) ==
  LET hit == {k \in 1..Len(H) : InJammingReach(F[i], H[k])}
      ids == [k \in 1..Len(H) |-> H[k].id]
      jammed == [F EXCEPT ![i].jammingTargets =
                   SelectSeq(ids, LAMBDA id : \E k \in hit : H[k].id = id)]
  IN [f |-> [j \in 1..Len(F) |->
               IF j # i /\ InJammingReach(F[i], F[j])
               THEN [jammed[j] EXCEPT !.health = ApplyDamage(@, JAM_DAMAGE)]
               ELSE jammed[j]],
      h |-> [k \in 1..Len(H) |-> IF k \in hit THEN JamHostile(H[k]) ELSE H[k]]]

\* Jamming (lines 223-244)
Jamming(F, H, i) ==
  LET hit == {k \in 1..Len(H) : InJammingReach(F[i], H[k])}
      ids == [k \in 1..Len(H) |-> H[k].id]
  IN [f |-> [F EXCEPT ![i].jammingTargets =
                 SelectSeq(ids, LAMBDA id : \E k \in hit : H[k].id = id)],
      h |-> [k \in 1..Len(H) |-> IF k \in hit THEN JamHostile(H[k]) ELSE H[k]]]

RECURSIVE SelectLoop(_, _, _, _, _, _, _)
\* The forEach of lines 250-256 from hostile k on; best is the index of
\* highestPriorityTarget, 0 while it is null (highestThreatLevel = -Infinity).
SelectLoop(F, H, A, i, hasCommunication, k, best) ==
  IF k > Len(H) THEN best
  ELSE IF best = 0
          \/ ScoreGreater(calculateThreatScore(F[i], i, H[k], A, F, hasCommunication),
                          calculateThreatScore(F[i], i, H[best], A, F, hasCommunication))
  THEN SelectLoop(F, H, A, i, hasCommunication, k + 1, k)
  ELSE SelectLoop(F, H, A, i, hasCommunication, k + 1, best)

\* A selection that keeps the last hostile of maximal score.
SelectTargetLast(F, H, A, i, hasCommunication) ==
  IF H = << >> THEN 0
  ELSE LET score(k) == calculateThreatScore(F[i], i, H[k], A, F, hasCommunication)
       IN CHOOSE k \in 1..Len(H) :
            /\ \A j \in 1..(k - 1) : ~ScoreGreater(score(j), score(k))
            /\ \A j \in (k + 1)..Len(H) : ScoreGreater(score(k), score(j))

\* Target selection (lines 247-256); 0 when the list is empty.
SelectTarget(F, H, A, i, hasCommunication) ==
  SelectLoop(F, H, A, i, hasCommunication, 1, 0)

\* maintainDefensivePosition (lines 423-432)
maintainDefensivePosition(self, A) ==
  IF Len(A) = 0 THEN self
  ELSE IF Abs(Len(A) * self.x - SumX(A)) > DEFENSIVE_RADIUS * Len(A)
  THEN moveTo(self, SumX(A), Len(A), DRONE_SPEED \div 2)
  ELSE self

\* applySeparation (lines 507-528) along x.  Each neighbour nearer than
\* separationDist pushes by (separationDist - d)/separationDist away from it;
\* the sum times 1.5 is added to x, here cut to the position resolution.
applySeparation(self, i, drones, separationDist) ==
  LET near == {k \in 1..Len(drones) :
                 /\ k # i /\ drones[k].health > 0
                 /\ calculateDistance(self, drones[k]) < separationDist
                 /\ calculateDistance(self, drones[k]) > 0}
      RECURSIVE Push(_)
      Push(S) == IF S = {} THEN 0
                 ELSE LET k == CHOOSE k \in S : TRUE
                      IN Sign(self.x - drones[k].x)
                           * (separationDist - calculateDistance(self, drones[k]))
                         + Push(S \ {k})
      sepX == Push(near)
  IN IF near # {}
     THEN [self EXCEPT !.x = self.x + Sign(sepX) * ((Abs(sepX) * 15 * U) \div (10 * separationDist))]
     ELSE self

\* A line centred on the centroid: slots at (index - (rosterSize - 1)/2) * spacing.
ExtendedLineCentred(index, rosterSize) == (2 * index - rosterSize + 1) * SLOT_SPACING

\* The extended-line slot of lines 486-489, doubled: 2 * targetOffsetX.
ExtendedLineOffset2(index, rosterSize) == (2 * index - rosterSize) * SLOT_SPACING

\* A row test that lets a row take one drone more than its width.
RowOverfull(remaining, r) == remaining > r + 1

\* The test of the spearhead row loop (line 470): remaining >= r + 1.
RowFull(remaining, r) == remaining >= r + 1

RECURSIVE SpearheadRow(_, _)
\* The while loop of lines 468-473, from the values remaining and r on.
SpearheadRow(remaining, r) ==
  IF RowFull(remaining, r) THEN SpearheadRow(remaining - (r + 1), r + 1)
  ELSE [r |-> r, remaining |-> remaining]

\* An arrowhead with both arms on the same side.
ArrowheadSideRight(index) == 1

\* The arm of the arrowhead (line 461): index % 2 === 0 ? 1 : -1.
ArrowheadSide(index) == IF index % 2 = 0 THEN 1 ELSE -1

\* The formations with slots.
Formations == {"arrowhead", "spearhead", "double-file", "extended-line"}

\* The slot offset of the switch of lines 455-490, <<targetOffsetX,
\* targetOffsetY>> in position units: spacing is 50, and every product below
\* is exact at the resolution U.
SlotOffset(formation, index, rosterSize) ==
  IF formation = "arrowhead"
  THEN IF index = 0 THEN <<0, -((SLOT_SPACING * 3) \div 2)>>
       ELSE LET row == (index + 1) \div 2
            IN <<ArrowheadSide(index) * row * SLOT_SPACING,
                 row * SLOT_SPACING - (SLOT_SPACING * 3) \div 2>>
  ELSE IF formation = "spearhead"
  THEN LET w == SpearheadRow(index, 0)
           startX2 == SLOT_SPACING - (w.r + 1) * SLOT_SPACING
       IN <<(startX2 + 2 * w.remaining * SLOT_SPACING) \div 2,
            ((2 * w.r - 3) * SLOT_SPACING) \div 2>>
  ELSE IF formation = "double-file"
  THEN <<(IF index % 2 = 0 THEN -1 ELSE 1) * ((SLOT_SPACING * 8) \div 10),
         ((4 * (index \div 2) - rosterSize) * SLOT_SPACING) \div 4>>
  ELSE <<ExtendedLineOffset2(index, rosterSize) \div 2, 0>>

\* patrolPosition (lines 434-505) under the 'extended-line' formation, the one
\* whose slots lie on the line y = centerY.
patrolPosition(self, i, A, F) ==
  IF Len(A) = 0 THEN self
  ELSE LET n == 2 * Len(A)
           targetN == 2 * SumX(A) + Len(A) * ExtendedLineOffset2(i - 1, Len(F))
           me == IF Abs(targetN - n * self.x) > SLOT_TOLERANCE * n
                 THEN moveTo(self, targetN, n, DRONE_SPEED \div 2)
                 ELSE self
       IN applySeparation(me, i, [F EXCEPT ![i] = me], SEPARATION_DIST)

\* fireAt's default damage (line 140), whatever the type.
FriendlyDamageDefault(self) == 2 * HP

\* The damage of a friendly's fire (line 268).
FriendlyDamage(self) == IF self.type = "bomber" THEN 20 * HP ELSE 2 * HP

\* A disengagement that clears the target and leaves isEngaging as it was.
DisengageTargetOnly(self) == [self EXCEPT !.target = NoTarget]

\* this.target = null; this.isEngaging = false (lines 276-277).
Disengage(self) == [self EXCEPT !.target = NoTarget, !.isEngaging = FALSE]

\* Friendly decision logic (lines 246-281), after jamming.
Decide(F, H, A, i, hasCommunication, now) ==
  LET t == SelectTarget(F, H, A, i, hasCommunication)
  IN IF t = 0
     THEN LET me == Disengage(F[i])
              F1 == [F EXCEPT ![i] = me]
          IN [f |-> [F1 EXCEPT ![i] = patrolPosition(me, i, A, F1)], h |-> H, a |-> A,
              log |-> [NoLog EXCEPT !.mode = "patrol",
                                    !.slotOffset2 = ExtendedLineOffset2(i - 1, Len(F1))]]
     ELSE LET me == [F[i] EXCEPT !.target = H[t].id, !.isEngaging = TRUE]
              F1 == [F EXCEPT ![i] = me]
              sel == [NoLog EXCEPT !.selected = H[t].id, !.selectedHealth = H[t].health,
                        !.critical = isCriticalThreat(H[t], A),
                        !.distance = calculateDistance(me, H[t])]
          IN IF isCriticalThreat(H[t], A) \/ shouldEngage(me, i, H[t], F1)
             THEN IF calculateDistance(me, H[t]) <= FIRING_RANGE
                  THEN IF CanFireNow(me, now)
                       THEN [f |-> [F1 EXCEPT ![i].lastFired = now],
                             h |-> [H EXCEPT ![t].health = ApplyDamage(@, FriendlyDamage(me))],
                             a |-> A,
                             log |-> [sel EXCEPT !.mode = "engage", !.pursued = TRUE,
                                        !.fired = TRUE, !.firedKind = "hostile",
                                        !.firedAt = H[t].id, !.firedAtHealth = H[t].health]]
                       ELSE [f |-> F1, h |-> H, a |-> A,
                             log |-> [sel EXCEPT !.mode = "engage", !.pursued = TRUE]]
                  ELSE [f |-> [F1 EXCEPT ![i] = moveTo(me, H[t].x, 1, DRONE_SPEED)],
                        h |-> H, a |-> A,
                        log |-> [sel EXCEPT !.mode = "engage", !.pursued = TRUE, !.moves = 1]]
             ELSE [f |-> [F1 EXCEPT ![i] = maintainDefensivePosition(me, A)],
                   h |-> H, a |-> A, log |-> [sel EXCEPT !.mode = "defend"]]

\* Drone.update of a friendly (lines 160-282)
updateFriendly(F0, H, A, i, hasCommunication, jammingEnabled, now, groundThreat, jitter) ==
  LET F == [F0 EXCEPT ![i].jammingTargets = << >>]
  IN IF ~hasCommunication
     THEN Autonomous(F, H, A, i, groundThreat, jitter)
     ELSE LET r == RescueLoop(F, i, 1, FALSE)
              F2 == MarkLost(r.f, i)
              lostTest(log) == [log EXCEPT !.xAtLostTest = r.f[i].x,
                                           !.farAtLostTest = FarFromSwarm(r.f, i)]
          IN IF r.performingRescue
             THEN [f |-> F2, h |-> H, a |-> A,
                   log |-> lostTest([NoLog EXCEPT !.mode = "rescue", !.rescue = TRUE,
                                        !.moves = IF F2[i].x # F[i].x THEN 1 ELSE 0])]
             ELSE LET j == IF jammingEnabled THEN Jamming(F2, H, i)
                           ELSE [f |-> F2, h |-> H]
                  IN [Decide(j.f, j.h, A, i, hasCommunication, now) EXCEPT
                        !.log = lostTest(@)]

\* ------------------------------------------------------------------
\* Drone.update, hostile side (lines 284-341)
\* ------------------------------------------------------------------
\* A speed that ignores the jam flag.
CurrentSpeedUnjammed(self) == IF self.type = "bomber" THEN BOMBER_SPEED ELSE HOSTILE_SPEED

\* currentSpeed (lines 286-289): the type's speed, times 0.2 while jammed.
CurrentSpeed(self) ==
  LET nominal == IF self.type = "bomber" THEN BOMBER_SPEED ELSE HOSTILE_SPEED
  IN IF self.isJammed THEN (nominal * 2) \div 10 ELSE nominal

\* A combat block that runs jammed or not.
MayFireAlways(self) == TRUE

\* The guard of the combat block (line 315).
MayFire(self) == ~self.isJammed

\* The priority chain with the mission objective tested first.
CombatChoiceAssetFirst(self, F, A, nf, na) ==
  IF na # 0 /\ calculateDistance(self, A[na]) <= FIRING_RANGE THEN "asset"
  ELSE IF nf # 0 /\ calculateDistance(self, F[nf]) <= FIRING_RANGE THEN "selfDefense"
  ELSE IF nf # 0 /\ calculateDistance(self, F[nf]) <= (FIRING_RANGE * 15) \div 10 THEN "chase"
  ELSE "none"

\* The priority chain of lines 317-330: what the combat block does, given the
\* nearest friendly (index nf, 0 for none) and the nearest asset (index na).
CombatChoice(self, F, A, nf, na) ==
  IF nf # 0 /\ calculateDistance(self, F[nf]) <= FIRING_RANGE THEN "selfDefense"
  ELSE IF na # 0 /\ calculateDistance(self, A[na]) <= FIRING_RANGE THEN "asset"
  ELSE IF nf # 0 /\ calculateDistance(self, F[nf]) <= (FIRING_RANGE * 15) \div 10 THEN "chase"
  ELSE "none"

\* The damage of a hostile's fire on a friendly (line 318) and an asset (line 324).
HostileDamageFriendly(self) == IF self.type = "bomber" THEN 15 * HP ELSE (15 * HP) \div 10
HostileDamageAsset(self) == IF self.type = "bomber" THEN 50 * HP ELSE 5 * HP

\* Combat logic (lines 314-331)
Combat(F, H, A, k, nf, na, now) ==
  LET self == H[k]
      choice == IF MayFire(self) THEN CombatChoice(self, F, A, nf, na) ELSE "none"
  IN IF choice = "selfDefense" /\ CanFireNow(self, now)
     THEN [f |-> [F EXCEPT ![nf].health = ApplyDamage(@, HostileDamageFriendly(self))],
           h |-> [H EXCEPT ![k].lastFired = now], a |-> A,
           log |-> [NoLog EXCEPT !.mode = "selfDefense", !.fired = TRUE,
                      !.firedKind = "friendly", !.firedAt = F[nf].id,
                      !.firedAtHealth = F[nf].health]]
     ELSE IF choice = "asset" /\ CanFireNow(self, now)
     THEN [f |-> F, h |-> [H EXCEPT ![k].lastFired = now],
           a |-> [A EXCEPT ![na].health = ApplyDamage(@, HostileDamageAsset(self))],
           log |-> [NoLog EXCEPT !.mode = "asset", !.fired = TRUE,
                      !.firedKind = "asset", !.firedAt = A[na].id,
                      !.firedAtHealth = A[na].health]]
     ELSE IF choice = "chase"
     THEN [f |-> F, h |-> [H EXCEPT ![k] = moveTo(self, F[nf].x, 1, CurrentSpeed(self))],
           a |-> A, log |-> [NoLog EXCEPT !.mode = "chase", !.moves = 1]]
     ELSE [f |-> F, h |-> H, a |-> A, log |-> [NoLog EXCEPT !.mode = choice]]

\* Movement logic (lines 333-340).  minAssetDist is the distance measured
\* before the combat block (line 296), so `before` is the drone as the update
\* found it and `self` the drone as combat left it.
Movement(before, self, F, A, nf, na) ==
  IF na # 0
  THEN IF calculateDistance(before, A[na]) > (FIRING_RANGE * 8) \div 10
       THEN moveTo(self, A[na].x, 1, CurrentSpeed(self))
       ELSE self
  ELSE IF nf # 0 THEN moveTo(self, F[nf].x, 1, CurrentSpeed(self))
  ELSE self

\* Drone.update of a hostile (lines 160-161, 284-341)
updateHostile(F, H0, A, k, now) ==
  LET H == [H0 EXCEPT ![k].jammingTargets = << >>]
      na == IF A = << >> THEN 0 ELSE NearestIndex(H[k], A)
      nf == IF F = << >> THEN 0 ELSE NearestIndex(H[k], F)
      c == Combat(F, H, A, k, nf, na, now)
      me == Movement(H[k], c.h[k], F, A, nf, na)
  IN [f |-> c.f, h |-> [c.h EXCEPT ![k] = me], a |-> c.a,
      log |-> [c.log EXCEPT !.moves = @ + (IF me.x # c.h[k].x THEN 1 ELSE 0)]]

\* ------------------------------------------------------------------
\* updateSimulation (lines 1124-1247)
\* ------------------------------------------------------------------
\* A hostile loop without its health test.
UpdatesHostileAlways(drone) == TRUE

\* The test of the hostile loop (line 1147).
UpdatesHostile(drone) == drone.health > 0

\* A casualty test that lets an entity at exactly 0 live.
SurvivesAtZero(e) == e.health >= 0

\* The test of the three casualty loops (lines 1155, 1167, 1180).
Survives(e) == e.health > 0

\* An integrity over the live assets alone: the archive adds nothing to the
\* summed max health.
IntegrityLiveOnly(live, destroyed) ==
  LET RECURSIVE LiveHealth(_)
      LiveHealth(s) == IF s = << >> THEN 0 ELSE Head(s).health + LiveHealth(Tail(s))
      RECURSIVE LiveMax(_)
      LiveMax(s) == IF s = << >> THEN 0 ELSE Head(s).maxHealth + LiveMax(Tail(s))
  IN IF LiveMax(live) > 0
     THEN (200 * LiveHealth(live) + LiveMax(live)) \div (2 * LiveMax(live))
     ELSE 0

\* A percentage of the health lost, not of the health left.
IntegrityOfDamage(live, destroyed) ==
  LET RECURSIVE LeftHealth(_)
      LeftHealth(s) == IF s = << >> THEN 0 ELSE Head(s).health + LeftHealth(Tail(s))
      RECURSIVE FullHealth(_)
      FullHealth(s) == IF s = << >> THEN 0 ELSE Head(s).maxHealth + FullHealth(Tail(s))
      full == FullHealth(live) + FullHealth(destroyed)
  IN IF full > 0 THEN (200 * (full - LeftHealth(live)) + full) \div (2 * full)
     ELSE 0

\* integrity (line 1203): Math.round(totalHealth / totalMaxHealth * 100)
Integrity(live, destroyed) ==
  LET RECURSIVE SumHealth(_)
      SumHealth(s) == IF s = << >> THEN 0 ELSE Head(s).health + SumHealth(Tail(s))
      RECURSIVE SumMax(_)
      SumMax(s) == IF s = << >> THEN 0 ELSE Head(s).maxHealth + SumMax(Tail(s))
      totalHealth == SumHealth(live)
      totalMaxHealth == SumMax(live) + SumMax(destroyed)
  IN IF totalMaxHealth > 0 THEN (200 * totalHealth + totalMaxHealth) \div (2 * totalMaxHealth)
     ELSE 0

\* ------------------------------------------------------------------
\* Map preset and initSimulation (lines 554-563, 615-691)
\* ------------------------------------------------------------------
NewAsset(id, x, priority, health) ==
  [id |-> id, x |-> x, priority |-> priority, health |-> health * HP, maxHealth |-> health * HP]

\* mapConfigs.convoy.assets (lines 557-561); every asset has y = 300.
ConvoyAssets ==
  << NewAsset("Supply Truck 1", 350 * U, 6, 500),
     NewAsset("Supply Truck 2", 400 * U, 6, 500),
     NewAsset("Supply Truck 3", 450 * U, 6, 500),
     NewAsset("APC", 320 * U, 8, 800),
     NewAsset("Tank", 480 * U, 7, 1200) >>

\* The interceptor spawn of the 'extended-line' formation (lines 644-645):
\* x = centerX + (i - friendlyCount/2) * spacing, for i = 0 .. friendlyCount-1.
SpawnX(A, i, friendlyCount) ==
  (2 * SumX(A) + Len(A) * (2 * i - friendlyCount) * SLOT_SPACING) \div (2 * Len(A))

DroneId(prefix, n) ==
  prefix \o (CASE n = 1 -> "1" [] n = 2 -> "2" [] n = 3 -> "3" [] OTHER -> "4")

\* sim.groundAssets = mapConfig.assets.map(asset => ({ ...asset })) (line 619):
\* a copy of every asset of the preset.
CopyAssets(assets) == [k \in 1..Len(assets) |-> assets[k]]

\* A tick that writes its damage into the preset's own asset objects.
PresetAliased(preset, assets) ==
  [k \in 1..Len(preset) |->
     IF \E j \in 1..Len(assets) : assets[j].id = preset[k].id
     THEN [preset[k] EXCEPT !.health =
             assets[CHOOSE j \in 1..Len(assets) : assets[j].id = preset[k].id].health]
     ELSE preset[k]]

\* What a tick that leaves sim.groundAssets as `assets` makes of the preset:
\* the objects it writes are the copies of line 619, so nothing.
PresetAfter(preset, assets) == preset

\* initSimulation (lines 615-689) for the convoy map under 'extended-line'.
\* The counts are the React state; the sequences are the Math.random() draws
\* of the x of the friendly bombers (line 659), of the hostiles (an edge of the
\* canvas, lines 669-676) and of the hostile bombers (line 683), every random
\* y drawn as 300.
initSimulation(preset, friendlyCount, bomberXs, hostileXs, hostileBomberXs) ==
  [f |-> [i \in 1..friendlyCount |->
            NewDrone(DroneId("F-", i), SpawnX(preset, i - 1, friendlyCount), TRUE, "drone")]
         \o [i \in 1..Len(bomberXs) |->
              NewDrone(DroneId("B-", i), bomberXs[i], TRUE, "bomber")],
   h |-> [i \in 1..Len(hostileXs) |->
            NewDrone(DroneId("H-", i), hostileXs[i], FALSE, "drone")]
         \o [i \in 1..Len(hostileBomberXs) |->
              NewDrone(DroneId("HB-", i), hostileBomberXs[i], FALSE, "bomber")],
   a |-> CopyAssets(preset),
   d |-> << >>]

\* ------------------------------------------------------------------
\* Bounds of the model
\* ------------------------------------------------------------------
\* Ticks per behaviour.
MaxTicks == 2

\* The largest roster whose formation slots are computed.
MaxRoster == 8

\* Wall-clock time between two ticks (Date.now() differences): one below and
\* one above the 100 ms of the fire cooldown and of the statistics publish.
TickDurations == {60, 120}

\* The idle hover's Math.random() - 0.5 (lines 183-184), a value of [-0.5, 0.5).
Jitters == {-(U \div 2), 0, (U \div 2) - 1}

\* Date.now() at the first state.
StartTime == 1000 * 1000

\* How long before the first state of a run in progress the statistics were
\* last published (a scheduled publish is at most one frame more than
\* UI_UPDATE_RATE old when the next one runs).
LastPublishAge == 30

\* ------------------------------------------------------------------
\* States of a run in progress.  A drone that has been flying keeps the trail
\* of its last ten moveTo calls (here: ten calls that found it within one unit
\* of where it was going), may hold a target, and fired some time ago.
\* ------------------------------------------------------------------
Veteran(id, x, isFriendly, type, health, target) ==
  [NewDrone(id, x * U, isFriendly, type) EXCEPT
     !.health = health, !.target = target, !.isEngaging = (target # NoTarget),
     !.trail = [k \in 1..TRAIL_CAPACITY |-> x * U], !.lastFired = StartTime - 500]

Lost(d, x) == [d EXCEPT !.lostCoords = <<x * U>>]

Damaged(A, k, health) == [A EXCEPT ![k].health = health]

\* Two friendlies in firing range of a hostile that one hit destroys; the
\* second interceptor of the roster has been lost.
KillScenario ==
  [f |-> << Veteran("F-1", 520, TRUE, "drone", 100 * HP, "H-1"),
            Veteran("B-1", 530, TRUE, "bomber", 150 * HP, "H-1") >>,
   h |-> << Veteran("H-1", 560, FALSE, "drone", 2 * HP, NoTarget) >>,
   a |-> ConvoyAssets,
   d |-> << >>,
   friendlyCount |-> 2, bomberCount |-> 1, hostileCount |-> 1,
   hostileBomberCount |-> 0, isRunning |-> TRUE]

\* A hostile in firing range of a friendly that one hit destroys and of an
\* asset that one hit destroys, and a hostile bomber in firing range of an
\* asset that one hit destroys.
LossScenario ==
  [f |-> << Veteran("F-1", 500, TRUE, "drone", (15 * HP) \div 10, "H-1"),
            Veteran("F-2", 300, TRUE, "drone", 100 * HP, "H-1") >>,
   h |-> << Veteran("H-1", 510, FALSE, "drone", 60 * HP, NoTarget),
            Veteran("HB-1", 440, FALSE, "bomber", 150 * HP, NoTarget) >>,
   a |-> Damaged(Damaged(ConvoyAssets, 5, 5 * HP), 3, 50 * HP),
   d |-> << >>,
   friendlyCount |-> 2, bomberCount |-> 0, hostileCount |-> 1,
   hostileBomberCount |-> 1, isRunning |-> TRUE]

\* Two friendlies more than 600 apart (each farther than the lost radius from
\* their centroid), one of them near a hostile far from every asset.
LostScenario ==
  [f |-> << Veteran("F-1", 100, TRUE, "drone", 100 * HP, "H-1"),
            Veteran("F-2", 750, TRUE, "drone", 100 * HP, "H-1") >>,
   h |-> << Veteran("H-1", 20, FALSE, "drone", 100 * HP, NoTarget) >>,
   a |-> ConvoyAssets,
   d |-> << >>,
   friendlyCount |-> 2, bomberCount |-> 0, hostileCount |-> 1,
   hostileBomberCount |-> 0, isRunning |-> TRUE]

\* A friendly that carries a lost-mark and has come back to within 101 of a
\* squadmate.
ReconnectScenario ==
  [f |-> << Veteran("F-1", 400, TRUE, "drone", 100 * HP, "H-1"),
            Lost(Veteran("F-2", 501, TRUE, "drone", 100 * HP, "H-1"), 750) >>,
   h |-> << Veteran("H-1", 700, FALSE, "drone", 100 * HP, NoTarget) >>,
   a |-> ConvoyAssets,
   d |-> << >>,
   friendlyCount |-> 2, bomberCount |-> 0, hostileCount |-> 1,
   hostileBomberCount |-> 0, isRunning |-> TRUE]

\* A friendly within jamming range of two hostiles, one of them within
\* near-firing distance (40) of an asset; the second interceptor of the roster
\* has been lost.
JamScenario ==
  [f |-> << Veteran("F-1", 500, TRUE, "drone", 100 * HP, "HB-1") >>,
   h |-> << Veteran("H-1", 590, FALSE, "drone", 100 * HP, NoTarget),
            Veteran("HB-1", 510, FALSE, "bomber", 150 * HP, NoTarget) >>,
   a |-> ConvoyAssets,
   d |-> << >>,
   friendlyCount |-> 2, bomberCount |-> 0, hostileCount |-> 1,
   hostileBomberCount |-> 1, isRunning |-> TRUE]

\* Every asset destroyed: two friendlies and a hostile on an empty field.
NoAssetScenario ==
  [f |-> << Veteran("F-1", 400, TRUE, "drone", 100 * HP, "H-1"),
            Veteran("F-2", 430, TRUE, "drone", 100 * HP, "H-1") >>,
   h |-> << Veteran("H-1", 520, FALSE, "drone", 100 * HP, NoTarget) >>,
   a |-> << >>,
   d |-> [k \in 1..Len(ConvoyAssets) |-> [ConvoyAssets[k] EXCEPT !.health = 0]],
   friendlyCount |-> 2, bomberCount |-> 0, hostileCount |-> 1,
   hostileBomberCount |-> 0, isRunning |-> TRUE]

\* The state initSimulation builds for three interceptors and one hostile
\* spawned on the right edge, before the run is started.
FreshScenario ==
  LET s == initSimulation(ConvoyAssets, 3, << >>, <<CANVAS_WIDTH>>, << >>)
  IN [f |-> s.f, h |-> s.h, a |-> s.a, d |-> s.d,
      friendlyCount |-> 3, bomberCount |-> 0, hostileCount |-> 1,
      hostileBomberCount |-> 0, isRunning |-> FALSE]

\* A swarm split in two: a friendly that carries a lost-mark next to a
\* squadmate that precedes it in the roster, both more than 300 from the swarm
\* centroid, and a hostile bomber in firing range of an asset whose health is
\* below the bomber's damage.  The hostile interceptor has been eliminated.
StragglerScenario ==
  [f |-> << Veteran("F-1", 60, TRUE, "drone", 100 * HP, "HB-1"),
            Lost(Veteran("F-2", 20, TRUE, "drone", 100 * HP, "HB-1"), 0),
            Veteran("F-3", 760, TRUE, "drone", 100 * HP, "HB-1"),
            Veteran("B-1", 780, TRUE, "bomber", 150 * HP, "HB-1") >>,
   h |-> << Veteran("HB-1", 500, FALSE, "bomber", 150 * HP, NoTarget) >>,
   a |-> Damaged(ConvoyAssets, 5, 20 * HP),
   d |-> << >>,
   friendlyCount |-> 3, bomberCount |-> 1, hostileCount |-> 1,
   hostileBomberCount |-> 1, isRunning |-> TRUE]

\* A swarm pulled apart: three friendlies more than 100 from one another, each
\* with the lost-mark it recorded when it left the others, and a hostile
\* within jamming range of the first.
SplitScenario ==
  [f |-> << Lost(Veteran("F-1", 60, TRUE, "drone", 100 * HP, "H-1"), 60),
            Lost(Veteran("F-2", 600, TRUE, "drone", 100 * HP, "H-1"), 750),
            Lost(Veteran("F-3", 760, TRUE, "drone", 100 * HP, "H-1"), 790) >>,
   h |-> << Veteran("H-1", 120, FALSE, "drone", 100 * HP, NoTarget) >>,
   a |-> ConvoyAssets,
   d |-> << >>,
   friendlyCount |-> 3, bomberCount |-> 0, hostileCount |-> 1,
   hostileBomberCount |-> 0, isRunning |-> TRUE]

\* Every asset destroyed and one weakened hostile left, on the right edge: an
\* interceptor that has just recorded its lost-mark, more than 300 from the
\* centroid of the swarm, and now pursues that hostile, and two squadmates
\* far behind it that hold no target.
PursuitScenario ==
  [f |-> << Veteran("F-1", 60, TRUE, "drone", 100 * HP, NoTarget),
            Lost(Veteran("F-2", 550, TRUE, "drone", 100 * HP, "H-1"), 550),
            Veteran("F-3", 40, TRUE, "drone", 100 * HP, NoTarget) >>,
   h |-> << Veteran("H-1", 800, FALSE, "drone", 2 * HP, NoTarget) >>,
   a |-> << >>,
   d |-> [k \in 1..Len(ConvoyAssets) |-> [ConvoyAssets[k] EXCEPT !.health = 0]],
   friendlyCount |-> 3, bomberCount |-> 0, hostileCount |-> 1,
   hostileBomberCount |-> 0, isRunning |-> TRUE]

\* The same swarm some 320 frames later: the hostile eliminated, the
\* interceptor 110 beyond its lost-mark, where the pursuit ended, and its
\* squadmates arriving at the mark, one 2 short of it and one 1 short.
ArrivalScenario ==
  [f |-> << Veteran("F-1", 548, TRUE, "drone", 100 * HP, NoTarget),
            Lost(Veteran("F-2", 660, TRUE, "drone", 100 * HP, "H-1"), 550),
            Veteran("F-3", 549, TRUE, "drone", 100 * HP, NoTarget) >>,
   h |-> << >>,
   a |-> << >>,
   d |-> [k \in 1..Len(ConvoyAssets) |-> [ConvoyAssets[k] EXCEPT !.health = 0]],
   friendlyCount |-> 3, bomberCount |-> 0, hostileCount |-> 1,
   hostileBomberCount |-> 0, isRunning |-> TRUE]

Scenarios == {KillScenario, LossScenario, LostScenario, ReconnectScenario,
              JamScenario, NoAssetScenario, StragglerScenario, FreshScenario}

\* The Math.random() draws of initSimulation kept by the model: a hostile
\* spawns on the left or the right edge (lines 673, 675), a friendly bomber
\* at x = 100 (line 659, a value of [0, 240)) and a hostile bomber at the
\* right edge (line 683, a value of (700, 800]).
HostileSpawns == {0, CANVAS_WIDTH}
BomberSpawns == {100 * U}
HostileBomberSpawns == {CANVAS_WIDTH}

\* The values of the count controls the model visits.
FriendlyCounts == {2, 3}
HostileCounts == {1, 2}

\* All sequences of length n over S.
SeqsOf(S, n) == [1..n -> S]

\* ------------------------------------------------------------------
\* State
\* ------------------------------------------------------------------
VARIABLES
  friendlyDrones,      \* sim.friendlyDrones
  hostileDrones,       \* sim.hostileDrones
  groundAssets,        \* sim.groundAssets
  destroyedAssets,     \* sim.destroyedAssets
  friendlyLosses,      \* sim.friendlyLosses
  communication,       \* the communication flag (React state)
  jammingEnabled,      \* the jamming flag (React state)
  stats,               \* uiData.stats
  lastUiUpdate,        \* lastUiUpdate.current
  eliminatedThisFrame, \* the local of updateSimulation (line 1178)
  now,                 \* Date.now()
  pc,                  \* where updateSimulation stands: idle (between ticks),
                       \* friendly, hostile, partition, publish
  idx,                 \* the forEach index of the running drone loop
  tick,                \* ticks started so far
  last,                \* observation: what the latest drone update did
  farPursuers,         \* observation: friendlies that, in this tick, pursued a
                       \* non-critical target from 200 or farther
  commTicks,           \* observation: ticks in a row run with communication
  dangling,            \* observation: friendlies whose target the latest
                       \* casualty partition removed
  danglingPrev,        \* observation: the same, one partition earlier
  isRunning,           \* the run flag (React state)
  friendlyCount,       \* the count controls (React state)
  hostileCount,
  bomberCount,
  hostileBomberCount,
  mapConfigs,          \* mapConfigs[selectedMap].assets
  initBy,              \* observation: what ran initSimulation since the latest
                       \* tick: none, reset (handleReset) or config (the effect)
  removedHostiles,     \* observation: hostiles removed by casualty partitions
                       \* since the reset control was last used
  firstInit,           \* observation: per configuration, what the first
                       \* initSimulation under it built
  marked,              \* observation: hostiles a friendly has jam-marked in
                       \* this tick
  markedPrev,          \* observation: the same, for the tick before
  withinReach,         \* observation: lost friendlies that a squadmate has
                       \* scanned from within the reconnection radius in this tick
  remarked,            \* observation: friendlies that have recorded a lost-mark
                       \* in this tick
  updated,             \* observation: the drones whose update has run in this
                       \* tick
  animationFrames,     \* the browser's list of animation frame callbacks: the
                       \* updateSimulation closures requested and neither run
                       \* nor cancelled, oldest first
  animationId,         \* sim.animationId, as a handle into animationFrames
  callback,            \* the updateSimulation closure that is running, NoCallback
                       \* between frames
  slot                 \* the formation slot patrolPosition computed last

\* The count controls.
configVars == <<friendlyCount, hostileCount, bomberCount, hostileBomberCount>>

\* The frame scheduling of the host.
hostVars == <<animationFrames, animationId, callback>>

\* The observation variables of the rescue protocol and of jamming.
markVars == <<marked, markedPrev, withinReach, remarked>>

vars == <<friendlyDrones, hostileDrones, groundAssets, destroyedAssets,
          friendlyLosses, communication, jammingEnabled, stats, lastUiUpdate,
          eliminatedThisFrame, now, pc, idx, tick, last, farPursuers, commTicks,
          dangling, danglingPrev, isRunning, configVars, mapConfigs, initBy,
          removedHostiles, firstInit, slot, markVars, updated, hostVars>>

\* sim.animationId: a request id of the source is any fresh number; what the
\* code can tell of it is whether it is null (NoFrame), names a callback that
\* is still in the browser's list (its position there) or names one that has
\* run or been cancelled (StaleFrame).
NoFrame == 0
StaleFrame == -1

\* An updateSimulation closure: the React state the render it belongs to saw.
Closure(running, comm, jam) ==
  [isRunning |-> running, communication |-> comm, jammingEnabled |-> jam]

NoCallback == Closure(FALSE, FALSE, FALSE)

\* sim.animationId = requestAnimationFrame(updateSimulation) (lines 1245, 1256).
requestAnimationFrame(host, closure) ==
  [frames |-> Append(host.frames, closure), id |-> Len(host.frames) + 1]

\* A guarded cancel that cancels nothing.
cancelNothing(host) == host

\* if (animationId) cancelAnimationFrame(animationId) (lines 1258-1260, 1263-1265).
cancelAnimationFrame(host) ==
  IF host.id >= 1
  THEN [frames |-> [k \in 1..(Len(host.frames) - 1) |->
                      IF k < host.id THEN host.frames[k] ELSE host.frames[k + 1]],
        id |-> StaleFrame]
  ELSE host

\* The effect of lines 1254-1267 when isRunning, communication or
\* jammingEnabled has changed: the cleanup of the previous run of the effect,
\* then its body under the new state.
RunningEffect(host, closure) ==
  IF closure.isRunning
  THEN requestAnimationFrame(cancelAnimationFrame(host), closure)
  ELSE cancelAnimationFrame(cancelAnimationFrame(host))

\* The browser takes the oldest callback off its list to run it.
TakeFrame(host) ==
  [frames |-> Tail(host.frames),
   id |-> IF host.id = 1 THEN StaleFrame
          ELSE IF host.id > 1 THEN host.id - 1 ELSE host.id]

Host == [frames |-> animationFrames, id |-> animationId]

\* No slot computed yet.
NoSlot == [formation |-> "none", index |-> 0, rosterSize |-> 0, offset |-> <<0, 0>>]

NoLast == [side |-> "none", id |-> NoTarget, healthAtCall |-> 0, jammedAtCall |-> FALSE,
           displacement |-> 0, nominalSpeed |-> 0, index |-> 0, rosterSize |-> 0,
           xAtCall |-> 0, lostAtCall |-> FALSE, farAtCall |-> FALSE,
           lastFiredAtCall |-> 0, log |-> NoLog]

\* The initial uiData.stats (line 598) and the stats handleReset sets (line 1271).
NoStats == [engaged |-> 0, threats |-> 0, eliminated |-> 0, integrity |-> 100,
            friendlyLosses |-> 0]

\* What initSimulation built, as far as the configuration decides it: the
\* category and health of every drone, in roster order, and the asset roster.
Roster(drones) ==
  [k \in 1..Len(drones) |-> [type |-> drones[k].type, health |-> drones[k].health]]

InitSummary(s) == [friendly |-> Roster(s.f), hostile |-> Roster(s.h), assets |-> s.a]

\* A state some ticks into a run: the rosters, archive and counters of scenario
\* s, under the configuration the run was initialised with.  The drones missing
\* from the rosters have been counted by earlier casualty partitions.
InitFrom(scenarios, flags) ==
  /\ \E s \in scenarios :
        /\ friendlyDrones = s.f
        /\ hostileDrones = s.h
        /\ groundAssets = s.a
        /\ destroyedAssets = s.d
        /\ friendlyCount = s.friendlyCount
        /\ bomberCount = s.bomberCount
        /\ hostileCount = s.hostileCount
        /\ hostileBomberCount = s.hostileBomberCount
        /\ isRunning = s.isRunning
        /\ lastUiUpdate = IF s.isRunning THEN StartTime - LastPublishAge ELSE 0
        /\ friendlyLosses = s.friendlyCount + s.bomberCount - Len(s.f)
        /\ removedHostiles = s.hostileCount + s.hostileBomberCount - Len(s.h)
        /\ stats = [NoStats EXCEPT
                      !.eliminated = s.hostileCount + s.hostileBomberCount - Len(s.h),
                      !.friendlyLosses = s.friendlyCount + s.bomberCount - Len(s.f)]
        /\ firstInit =
             [friendlyCount |-> s.friendlyCount, bomberCount |-> s.bomberCount,
              hostileCount |-> s.hostileCount, hostileBomberCount |-> s.hostileBomberCount,
              summary |-> InitSummary(initSimulation(ConvoyAssets, s.friendlyCount,
                             [i \in 1..s.bomberCount |-> 0], [i \in 1..s.hostileCount |-> 0],
                             [i \in 1..s.hostileBomberCount |-> 0]))]
  /\ mapConfigs = ConvoyAssets
  /\ initBy = "none"
  /\ marked = {}
  /\ markedPrev = {}
  /\ withinReach = {}
  /\ remarked = {}
  /\ updated = {}
  /\ \E flag \in flags :
        /\ communication = flag.communication
        /\ jammingEnabled = flag.jammingEnabled
  /\ animationFrames = IF isRunning
                       THEN <<Closure(TRUE, communication, jammingEnabled)>> ELSE << >>
  /\ animationId = IF isRunning THEN 1 ELSE NoFrame
  /\ callback = NoCallback
  /\ slot = NoSlot
  /\ eliminatedThisFrame = 0
  /\ now = StartTime
  /\ pc = "idle"
  /\ idx = 0
  /\ tick = 0
  /\ last = NoLast
  /\ farPursuers = {}
  /\ commTicks = 0
  /\ dangling = {}
  /\ danglingPrev = {}

\* A friendly loop that stops after its first drone.
LoopAtFirstOnly(phase, i, nF, nH) ==
  IF phase = "friendly" /\ i <= 1 /\ i <= nF THEN <<"friendly", i>>
  ELSE IF (phase = "friendly" /\ nH >= 1) THEN <<"hostile", 1>>
  ELSE IF phase = "hostile" /\ i <= nH THEN <<"hostile", i>>
  ELSE <<"partition", 0>>

\* Where the drone loops stand once the loop `phase` has reached index i.
LoopAt(phase, i, nF, nH) ==
  IF phase = "friendly" /\ i <= nF THEN <<"friendly", i>>
  ELSE IF (phase = "friendly" /\ nH >= 1) THEN <<"hostile", 1>>
  ELSE IF phase = "hostile" /\ i <= nH THEN <<"hostile", i>>
  ELSE <<"partition", 0>>

\* The communication and jamming checkboxes (lines 1483, 1499), between ticks,
\* with the effect of lines 1254-1267 that the new flag triggers: it cancels
\* the pending frame and, while the run is on, requests one for the new closure.
SetCommunication ==
  /\ pc = "idle"
  /\ communication' = ~communication
  /\ animationFrames' =
       RunningEffect(Host, Closure(isRunning, communication', jammingEnabled)).frames
  /\ animationId' =
       RunningEffect(Host, Closure(isRunning, communication', jammingEnabled)).id
  /\ UNCHANGED <<callback, friendlyDrones, hostileDrones, groundAssets, destroyedAssets,
                 friendlyLosses, jammingEnabled, stats, lastUiUpdate,
                 eliminatedThisFrame, now, pc, idx, tick, last, farPursuers,
                 commTicks, dangling, danglingPrev, isRunning, configVars,
                 mapConfigs, initBy, removedHostiles, firstInit, slot, markVars, updated>>

SetJammingEnabled ==
  /\ pc = "idle"
  /\ jammingEnabled' = ~jammingEnabled
  /\ animationFrames' =
       RunningEffect(Host, Closure(isRunning, communication, jammingEnabled')).frames
  /\ animationId' =
       RunningEffect(Host, Closure(isRunning, communication, jammingEnabled')).id
  /\ UNCHANGED <<callback, friendlyDrones, hostileDrones, groundAssets, destroyedAssets,
                 friendlyLosses, communication, stats, lastUiUpdate,
                 eliminatedThisFrame, now, pc, idx, tick, last, farPursuers,
                 commTicks, dangling, danglingPrev, isRunning, configVars,
                 mapConfigs, initBy, removedHostiles, firstInit, slot, markVars, updated>>

\* The start / halt button (line 1507), between ticks.  The effect of lines
\* 1254-1267 requests the first frame, or cancels the pending one.
ToggleRunning ==
  /\ pc = "idle"
  /\ isRunning' = ~isRunning
  /\ animationFrames' =
       RunningEffect(Host, Closure(isRunning', communication, jammingEnabled)).frames
  /\ animationId' =
       RunningEffect(Host, Closure(isRunning', communication, jammingEnabled)).id
  /\ UNCHANGED <<callback, friendlyDrones, hostileDrones, groundAssets, destroyedAssets,
                 friendlyLosses, communication, jammingEnabled, stats, lastUiUpdate,
                 eliminatedThisFrame, now, pc, idx, tick, last, farPursuers,
                 commTicks, dangling, danglingPrev, configVars, mapConfigs, initBy,
                 removedHostiles, firstInit, slot, markVars, updated>>

\* initSimulation (lines 615-689) under the counts fc, bc, hc, hbc, with its
\* random draws; `by` is what called it.
Initialize(fc, bc, hc, hbc, by) ==
  /\ \E bomberXs \in SeqsOf(BomberSpawns, bc), hostileXs \in SeqsOf(HostileSpawns, hc),
        hostileBomberXs \in SeqsOf(HostileBomberSpawns, hbc) :
       LET s == initSimulation(mapConfigs, fc, bomberXs, hostileXs, hostileBomberXs)
       IN /\ friendlyDrones' = s.f
          /\ hostileDrones' = s.h
          /\ groundAssets' = s.a
          /\ destroyedAssets' = s.d
  /\ friendlyLosses' = 0
  /\ initBy' = by
  /\ last' = NoLast
  /\ farPursuers' = {}
  /\ commTicks' = 0
  /\ dangling' = {}
  /\ danglingPrev' = {}
  /\ marked' = {}
  /\ markedPrev' = {}
  /\ withinReach' = {}
  /\ remarked' = {}
  /\ updated' = {}
  /\ UNCHANGED <<communication, jammingEnabled, lastUiUpdate, eliminatedThisFrame,
                 now, pc, idx, tick, mapConfigs, firstInit, slot>>

\* handleReset (lines 1269-1274): the reset button, running or not.  When the
\* run was on, the effect of lines 1254-1267 cancels the pending frame.
handleReset ==
  /\ pc = "idle"
  /\ isRunning' = FALSE
  /\ animationFrames' =
       IF isRunning
       THEN RunningEffect(Host, Closure(FALSE, communication, jammingEnabled)).frames
       ELSE animationFrames
  /\ animationId' =
       IF isRunning
       THEN RunningEffect(Host, Closure(FALSE, communication, jammingEnabled)).id
       ELSE animationId
  /\ UNCHANGED callback
  /\ stats' = NoStats
  /\ removedHostiles' = 0
  /\ Initialize(friendlyCount, bomberCount, hostileCount, hostileBomberCount, "reset")
  /\ UNCHANGED configVars

\* The friendly-count controls (lines 1409, 1421, 1427), enabled while the run
\* is halted, and the effect of lines 1249-1252 that the new count triggers.
SetFriendlyCount ==
  /\ pc = "idle"
  /\ ~isRunning
  /\ \E n \in FriendlyCounts \ {friendlyCount} :
       /\ friendlyCount' = n
       /\ Initialize(n, bomberCount, hostileCount, hostileBomberCount, "config")
  /\ UNCHANGED <<hostileCount, bomberCount, hostileBomberCount, isRunning, stats,
                 removedHostiles, hostVars>>

\* The hostile-count controls (lines 1443, 1455, 1461) and the same effect.
SetHostileCount ==
  /\ pc = "idle"
  /\ ~isRunning
  /\ \E n \in HostileCounts \ {hostileCount} :
       /\ hostileCount' = n
       /\ Initialize(friendlyCount, bomberCount, n, hostileBomberCount, "config")
  /\ UNCHANGED <<friendlyCount, bomberCount, hostileBomberCount, isRunning, stats,
                 removedHostiles, hostVars>>

\* A jam flag that outlives the tick.
KeepJam(h) == h

\* The reset of the jam flag (line 1140).
ClearJam(h) == [h EXCEPT !.isJammed = FALSE]

\* updateSimulation up to the friendly loop (lines 1124-1140): the clock has
\* advanced since the last frame, and every jam flag is cleared.  The browser
\* runs the oldest callback of its list, which leaves the list.
StartTick ==
  /\ pc = "idle"
  /\ animationFrames # << >>
  /\ tick < MaxTicks
  /\ callback' = Head(animationFrames)
  /\ animationFrames' = TakeFrame(Host).frames
  /\ animationId' = TakeFrame(Host).id
  /\ \E dt \in TickDurations : now' = now + dt
  /\ hostileDrones' = [k \in 1..Len(hostileDrones) |-> ClearJam(hostileDrones[k])]
  /\ pc' = LoopAt("friendly", 1, Len(friendlyDrones), Len(hostileDrones))[1]
  /\ idx' = LoopAt("friendly", 1, Len(friendlyDrones), Len(hostileDrones))[2]
  /\ tick' = tick + 1
  /\ last' = NoLast
  /\ farPursuers' = {}
  /\ commTicks' = IF communication THEN commTicks + 1 ELSE 0
  /\ initBy' = "none"
  /\ markedPrev' = marked
  /\ marked' = {}
  /\ withinReach' = {}
  /\ remarked' = {}
  /\ updated' = {}
  /\ UNCHANGED <<friendlyDrones, groundAssets, destroyedAssets, friendlyLosses,
                 communication, jammingEnabled, stats, lastUiUpdate,
                 eliminatedThisFrame, dangling, danglingPrev, isRunning, configVars,
                 mapConfigs, removedHostiles, firstInit, slot>>

\* One iteration of the friendly loop (lines 1142-1144).
UpdateFriendly ==
  /\ pc = "friendly"
  /\ \E groundThreat \in BOOLEAN, jitter \in Jitters :
       LET self == friendlyDrones[idx]
           r == updateFriendly(friendlyDrones, hostileDrones, groundAssets, idx,
                               communication, jammingEnabled, now, groundThreat, jitter)
       IN /\ friendlyDrones' = r.f
          /\ hostileDrones' = r.h
          /\ groundAssets' = r.a
          /\ last' = [side |-> "friendly", id |-> self.id, healthAtCall |-> self.health,
                      jammedAtCall |-> self.isJammed,
                      displacement |-> Abs(friendlyDrones'[idx].x - self.x),
                      nominalSpeed |-> DRONE_SPEED,
                      index |-> idx - 1, rosterSize |-> Len(friendlyDrones),
                      xAtCall |-> self.x, lostAtCall |-> self.lostCoords # NoCoords,
                      farAtCall |-> FarFromSwarm(friendlyDrones, idx),
                      lastFiredAtCall |-> self.lastFired,
                      log |-> r.log]
          /\ farPursuers' = IF last'.log.pursued /\ ~last'.log.critical
                               /\ last'.log.distance >= ENGAGE_DISTANCE
                            THEN farPursuers \cup {self.id} ELSE farPursuers
          /\ marked' = marked \cup {friendlyDrones'[idx].jammingTargets[k] :
                                      k \in 1..Len(friendlyDrones'[idx].jammingTargets)}
          /\ withinReach' = withinReach \cup
               {friendlyDrones[j].id : j \in
                  {j \in 1..Len(friendlyDrones) :
                     /\ communication
                     /\ j # idx
                     /\ friendlyDrones[j].lostCoords # NoCoords
                     /\ Abs(self.x - friendlyDrones[j].x) < RECONNECT_RADIUS
                     /\ Abs(last'.log.xAtLostTest - friendlyDrones[j].x) < RECONNECT_RADIUS}}
          /\ remarked' = IF /\ self.lostCoords = NoCoords
                            /\ friendlyDrones'[idx].lostCoords # NoCoords
                         THEN (remarked \ (withinReach' \ withinReach)) \cup {self.id}
                         ELSE remarked \ (withinReach' \ withinReach)
  /\ updated' = updated \cup {friendlyDrones[idx].id}
  /\ pc' = LoopAt("friendly", idx + 1, Len(friendlyDrones), Len(hostileDrones))[1]
  /\ idx' = LoopAt("friendly", idx + 1, Len(friendlyDrones), Len(hostileDrones))[2]
  /\ UNCHANGED <<destroyedAssets, friendlyLosses, communication, jammingEnabled,
                 stats, lastUiUpdate, eliminatedThisFrame, now, tick, commTicks,
                 dangling, danglingPrev, isRunning, configVars, mapConfigs, initBy,
                 removedHostiles, firstInit, slot, markedPrev, hostVars>>

\* One iteration of the hostile loop (lines 1146-1150).
UpdateHostile ==
  /\ pc = "hostile"
  /\ LET self == hostileDrones[idx]
         r == updateHostile(friendlyDrones, hostileDrones, groundAssets, idx, now)
     IN IF UpdatesHostile(self)
        THEN /\ friendlyDrones' = r.f
             /\ hostileDrones' = r.h
             /\ groundAssets' = r.a
             /\ mapConfigs' = PresetAfter(mapConfigs, r.a)
             /\ last' = [NoLast EXCEPT
                           !.side = "hostile", !.id = self.id,
                           !.healthAtCall = self.health,
                           !.jammedAtCall = self.isJammed,
                           !.lastFiredAtCall = self.lastFired,
                           !.displacement = Abs(r.h[idx].x - self.x),
                           !.nominalSpeed = IF self.type = "bomber" THEN BOMBER_SPEED
                                            ELSE HOSTILE_SPEED,
                           !.log = r.log]
        ELSE /\ last' = [NoLast EXCEPT !.side = "skipped", !.id = self.id,
                                       !.healthAtCall = self.health]
             /\ UNCHANGED <<friendlyDrones, hostileDrones, groundAssets, mapConfigs>>
  /\ updated' = IF UpdatesHostile(hostileDrones[idx])
                THEN updated \cup {hostileDrones[idx].id} ELSE updated
  /\ pc' = LoopAt("hostile", idx + 1, Len(friendlyDrones), Len(hostileDrones))[1]
  /\ idx' = LoopAt("hostile", idx + 1, Len(friendlyDrones), Len(hostileDrones))[2]
  /\ UNCHANGED <<destroyedAssets, friendlyLosses, communication, jammingEnabled,
                 stats, lastUiUpdate, eliminatedThisFrame, now, tick, farPursuers,
                 commTicks, dangling, danglingPrev, isRunning, configVars, initBy,
                 removedHostiles, firstInit, slot, markVars, hostVars>>

\* A survivor list filled from the front (unshift for push).
SurvivorsReversed(entities) ==
  LET kept == SelectSeq(entities, Survives)
  IN [k \in 1..Len(kept) |-> kept[Len(kept) + 1 - k]]

\* The survivor lists of lines 1153-1185: forEach in order, push when
\* health > 0.
Survivors(entities) == SelectSeq(entities, Survives)

\* An archive that takes every asset, destroyed or not.
ArchiveAll(destroyed, assets) == destroyed \o assets

\* sim.destroyedAssets after the asset loop (lines 1166-1173).
Archive(destroyed, assets) ==
  destroyed \o SelectSeq(assets, LAMBDA a : ~Survives(a))

\* The casualty partition (lines 1152-1187).
CasualtyPartition ==
  /\ pc = "partition"
  /\ LET survivingFriendlies == Survivors(friendlyDrones)
         survivingAssets == Survivors(groundAssets)
         survivingHostiles == Survivors(hostileDrones)
         removed == {hostileDrones[k].id : k \in {j \in 1..Len(hostileDrones) :
                                                    ~Survives(hostileDrones[j])}}
     IN /\ friendlyDrones' = survivingFriendlies
        /\ friendlyLosses' = friendlyLosses + (Len(friendlyDrones) - Len(survivingFriendlies))
        /\ groundAssets' = survivingAssets
        /\ destroyedAssets' = Archive(destroyedAssets, groundAssets)
        /\ hostileDrones' = survivingHostiles
        /\ eliminatedThisFrame' = Len(hostileDrones) - Len(survivingHostiles)
        /\ removedHostiles' = removedHostiles + Cardinality(removed)
        /\ dangling' = {survivingFriendlies[k].id : k \in
                          {j \in 1..Len(survivingFriendlies) :
                             survivingFriendlies[j].target \in removed}}
        /\ danglingPrev' = dangling
  /\ pc' = "publish"
  /\ UNCHANGED <<communication, jammingEnabled, stats, lastUiUpdate, now, idx,
                 tick, last, farPursuers, commTicks, isRunning, configVars,
                 mapConfigs, initBy, firstInit, slot, markVars, updated, hostVars>>

\* An unscheduled publish that drops the eliminations of the frame.
FlushNothing(st, eliminated) == st

\* The publish between two scheduled ones (lines 1235-1240).
FlushEliminated(st, eliminated) ==
  IF eliminated > 0 THEN [st EXCEPT !.eliminated = @ + eliminated] ELSE st

\* The statistics publish (lines 1189-1240).
PublishStats ==
  /\ pc = "publish"
  /\ IF now - lastUiUpdate > UI_UPDATE_RATE
     THEN /\ stats' =
               [engaged |-> Cardinality({k \in 1..Len(friendlyDrones) :
                                           friendlyDrones[k].isEngaging}),
                threats |-> Cardinality({k \in 1..Len(hostileDrones) :
                              \E j \in 1..Len(groundAssets) :
                                 calculateDistance(hostileDrones[k], groundAssets[j])
                                   <= THREATENING_RANGE}),
                eliminated |-> stats.eliminated + eliminatedThisFrame,
                integrity |-> Integrity(groundAssets, destroyedAssets),
                friendlyLosses |-> friendlyLosses]
          /\ lastUiUpdate' = now
     ELSE /\ stats' = FlushEliminated(stats, eliminatedThisFrame)
          /\ UNCHANGED lastUiUpdate
  /\ animationFrames' = IF callback.isRunning
                        THEN requestAnimationFrame(Host, callback).frames
                        ELSE animationFrames
  /\ animationId' = IF callback.isRunning
                    THEN requestAnimationFrame(Host, callback).id
                    ELSE animationId
  /\ callback' = NoCallback
  /\ pc' = "idle"
  /\ UNCHANGED <<friendlyDrones, hostileDrones, groundAssets, destroyedAssets,
                 friendlyLosses, communication, jammingEnabled, eliminatedThisFrame,
                 now, idx, tick, last, farPursuers, commTicks, dangling, danglingPrev,
                 isRunning, configVars, mapConfigs, initBy, removedHostiles,
                 firstInit, slot, markVars, updated>>

Init == InitFrom(Scenarios, [communication : BOOLEAN, jammingEnabled : BOOLEAN])

\* A run between two initialisations: the frames and the controls that stay
\* enabled while the run goes on.
Next ==
  \/ SetCommunication
  \/ SetJammingEnabled
  \/ ToggleRunning
  \/ StartTick
  \/ UpdateFriendly
  \/ UpdateHostile
  \/ CasualtyPartition
  \/ PublishStats

Spec == Init /\ [][Next]_vars

\* Runs with the reset button and the count controls, from the scenarios in
\* which a hostile is eliminated, a friendly is lost and assets are destroyed,
\* and from the state initSimulation builds.  The communication flag stays
\* enabled and the jamming flag disabled, as the component mounts them
\* (lines 583-584).
ResetScenarios == {KillScenario, LossScenario, FreshScenario}

InitReset ==
  InitFrom(ResetScenarios, {[communication |-> TRUE, jammingEnabled |-> FALSE]})

NextReset ==
  \/ ToggleRunning
  \/ handleReset
  \/ SetFriendlyCount
  \/ SetHostileCount
  \/ StartTick
  \/ UpdateFriendly
  \/ UpdateHostile
  \/ CasualtyPartition
  \/ PublishStats

SpecReset == InitReset /\ [][NextReset]_vars

\* Runs with every control that stays enabled while the run is on: start and
\* halt, reset and the two flag checkboxes (lines 1483, 1499, 1507, 1518), from
\* the state initSimulation builds, from a run in progress and from a run
\* whose swarm has been pulled apart, the flags as the component mounts them.
HostScenarios == {FreshScenario, KillScenario, SplitScenario}

InitHost ==
  InitFrom(HostScenarios, {[communication |-> TRUE, jammingEnabled |-> FALSE]})

NextHost ==
  \/ ToggleRunning
  \/ handleReset
  \/ SetCommunication
  \/ SetJammingEnabled
  \/ StartTick
  \/ UpdateFriendly
  \/ UpdateHostile
  \/ CasualtyPartition
  \/ PublishStats

SpecHost == InitHost /\ [][NextHost]_vars

\* The slot computation of patrolPosition on its own: for a formation, a
\* roster of rosterSize friendlies and the index of one of them (line 440),
\* the offset of the slot from the asset centroid.
PatrolSlot ==
  /\ pc = "idle"
  /\ \E formation \in Formations, rosterSize \in 1..MaxRoster :
       \E index \in 0..(rosterSize - 1) :
          slot' = [formation |-> formation, index |-> index, rosterSize |-> rosterSize,
                   offset |-> SlotOffset(formation, index, rosterSize)]
  /\ UNCHANGED <<friendlyDrones, hostileDrones, groundAssets, destroyedAssets,
                 friendlyLosses, communication, jammingEnabled, stats, lastUiUpdate,
                 eliminatedThisFrame, now, pc, idx, tick, last, farPursuers, commTicks,
                 dangling, danglingPrev, isRunning, configVars, mapConfigs, initBy,
                 removedHostiles, firstInit, markVars, updated, hostVars>>

InitSlots ==
  InitFrom({FreshScenario}, {[communication |-> TRUE, jammingEnabled |-> FALSE]})

NextSlots == PatrolSlot

SpecSlots == InitSlots /\ [][NextSlots]_vars

\* ------------------------------------------------------------------
\* Helpers of the properties
\* ------------------------------------------------------------------
LiveHostileIds == {hostileDrones[k].id : k \in 1..Len(hostileDrones)}

\* ceil(0.3 * n)
SaturationCap(n) == (3 * n + 9) \div 10

\* Every entity that is in `before` and in `after` (by id) satisfies R(old, new).
Paired(before, after, R(_, _)) ==
  \A j \in 1..Len(before) : \A k \in 1..Len(after) :
     before[j].id = after[k].id => R(before[j], after[k])

SameHealth(old, new) == new.health = old.health

\* ------------------------------------------------------------------
\* C1.  If the hostile a friendly's target references is removed by the
\* casualty partition of tick t, then after tick t+1 the friendly's target is
\* null or references a hostile of the live-hostile set.
\* (danglingPrev: the friendlies whose target the partition before the latest
\* one removed.)
\* ------------------------------------------------------------------
C1_TargetResolvedByNextTick ==
  pc = "idle" =>
    \A k \in 1..Len(friendlyDrones) :
       friendlyDrones[k].id \in danglingPrev =>
         \/ friendlyDrones[k].target = NoTarget
         \/ friendlyDrones[k].target \in LiveHostileIds

\* ------------------------------------------------------------------
\* C2.  After the casualty partition of every tick, every live friendly, live
\* hostile and live asset has health > 0: whatever had health <= 0 when the
\* partition ran is gone from the live sets.
\* ------------------------------------------------------------------
C2_LiveAfterPartition ==
  pc \in {"publish", "idle"} =>
    /\ \A k \in 1..Len(friendlyDrones) : friendlyDrones[k].health > 0
    /\ \A k \in 1..Len(hostileDrones) : hostileDrones[k].health > 0
    /\ \A k \in 1..Len(groundAssets) : groundAssets[k].health > 0

\* A partition has just removed a friendly, and an asset is in the archive.
C2_Witness ==
  /\ pc = "publish"
  /\ friendlyLosses > 0
  /\ \E k \in 1..Len(destroyedAssets) : destroyedAssets[k].health = 0
  /\ Len(groundAssets) < Len(ConvoyAssets)

\* ------------------------------------------------------------------
\* C3.  Over every step of a run, the health of every drone and of every
\* ground asset that exists before and after the step does not increase.
\* (initSimulation replaces every drone and asset by a new object: nothing
\* exists before and after it.)
\* ------------------------------------------------------------------
C3_HealthNeverIncreases ==
  [][~(handleReset \/ SetFriendlyCount \/ SetHostileCount) =>
       LET NotMore(old, new) == new.health <= old.health
       IN /\ Paired(friendlyDrones, friendlyDrones', NotMore)
          /\ Paired(hostileDrones, hostileDrones', NotMore)
          /\ Paired(groundAssets, groundAssets', NotMore)]_vars

\* A hostile has just fired on an asset and lowered its health.
C3_Witness ==
  /\ last.side = "hostile"
  /\ last.log.fired
  /\ last.log.firedKind = "asset"
  /\ \E k \in 1..Len(groundAssets) :
        /\ groundAssets[k].id = last.log.firedAt
        /\ groundAssets[k].health < last.log.firedAtHealth

\* ------------------------------------------------------------------
\* C4.  The per-drone update is never invoked on a drone, friendly or
\* hostile, whose health is <= 0 at the moment of the call.
\* ------------------------------------------------------------------
C4_NoUpdateOfDead ==
  last.side \in {"friendly", "hostile"} => last.healthAtCall > 0

\* The hostile loop has just passed over a hostile that a friendly destroyed
\* earlier in the tick.
C4_Witness ==
  /\ last.side = "skipped"
  /\ last.healthAtCall <= 0

\* ------------------------------------------------------------------
\* C5.  Once the health of a drone or ground asset has reached <= 0 during a
\* tick, no drone updated later in that tick selects it as a target or fires
\* at it.
\* ------------------------------------------------------------------
C5_NoActionOnDestroyed ==
  /\ last.log.selected # NoTarget => last.log.selectedHealth > 0
  /\ last.log.fired => last.log.firedAtHealth > 0

\* ------------------------------------------------------------------
\* C6 as stated.  With communication enabled and a single live hostile that
\* is not within threatening range of any asset, after every tick but the
\* first at most ceil(0.3 * N) of the N live friendlies report isEngaging with
\* that hostile as target.
\* ------------------------------------------------------------------
C6_EngagingCapped ==
  ( /\ pc = "idle"
    /\ commTicks >= 2
    /\ Len(hostileDrones) = 1
    /\ ~isCriticalThreat(hostileDrones[1], groundAssets) )
  => Cardinality({k \in 1..Len(friendlyDrones) :
                    /\ friendlyDrones[k].isEngaging
                    /\ friendlyDrones[k].target = hostileDrones[1].id})
       <= SaturationCap(Len(friendlyDrones))

\* C6 as amended.  With communication enabled and a single live hostile, in
\* every tick at most ceil(0.3 * N) of the N live friendlies pursue (move
\* toward or fire at) the hostile from a distance of 200 or more while it is
\* not within threatening range of any asset.
C6_FarPursuitCapped ==
  ( /\ pc \in {"friendly", "hostile", "partition"}
    /\ communication
    /\ Len(hostileDrones) = 1 )
  => Cardinality(farPursuers) <= SaturationCap(Len(friendlyDrones))

\* Of three friendlies 200 or farther from a non-critical hostile, one has
\* pursued it, a later one has declined and holds the defensive position, and
\* all that have been updated report isEngaging.
C6_Witness ==
  /\ pc = "friendly"
  /\ communication
  /\ Len(friendlyDrones) = 3
  /\ Len(hostileDrones) = 1
  /\ Cardinality(farPursuers) = 1
  /\ last.log.mode = "defend"
  /\ last.log.distance >= ENGAGE_DISTANCE
  /\ Cardinality({k \in 1..Len(friendlyDrones) : friendlyDrones[k].isEngaging}) >= 2

\* ------------------------------------------------------------------
\* C7.  A hostile that has a friendly within firing range when its update
\* runs lowers no asset's health in that update, and no hostile update lowers
\* both a friendly's and an asset's health.
\* ------------------------------------------------------------------
C7_SelfDefenseExcludesAsset ==
  [][pc = "hostile" =>
       LET self == hostileDrones[idx]
           friendlyInRange ==
             \E k \in 1..Len(friendlyDrones) :
                calculateDistance(self, friendlyDrones[k]) <= FIRING_RANGE
           friendlyHit == ~Paired(friendlyDrones, friendlyDrones', SameHealth)
           assetHit == ~Paired(groundAssets, groundAssets', SameHealth)
       IN /\ friendlyInRange => ~assetHit
          /\ ~(friendlyHit /\ assetHit)]_vars

\* A hostile with a friendly and an asset both within firing range has just
\* fired on the friendly.
C7_Witness ==
  /\ last.side = "hostile"
  /\ last.log.fired
  /\ last.log.firedKind = "friendly"
  /\ \E k \in 1..Len(hostileDrones), j \in 1..Len(groundAssets) :
        /\ hostileDrones[k].id = last.id
        /\ last.displacement = 0
        /\ calculateDistance(hostileDrones[k], groundAssets[j]) <= FIRING_RANGE

\* ------------------------------------------------------------------
\* C8.  A hostile whose isJammed flag is set when its update runs fires at
\* nothing: the update changes no friendly's and no asset's health and leaves
\* the hostile's lastFired unchanged.
\* ------------------------------------------------------------------
C8_JammedNeverFires ==
  [][(pc = "hostile" /\ hostileDrones[idx].isJammed) =>
       /\ Paired(friendlyDrones, friendlyDrones', SameHealth)
       /\ Paired(groundAssets, groundAssets', SameHealth)
       /\ hostileDrones'[idx].lastFired = hostileDrones[idx].lastFired]_vars

\* A jammed hostile, its cooldown over, has just been updated with a friendly
\* within firing range.
C8_Witness ==
  /\ last.side = "hostile"
  /\ last.jammedAtCall
  /\ \E k \in 1..Len(hostileDrones), j \in 1..Len(friendlyDrones) :
        /\ hostileDrones[k].id = last.id
        /\ CanFireNow(hostileDrones[k], now)
        /\ calculateDistance(hostileDrones[k], friendlyDrones[j]) <= FIRING_RANGE

\* ------------------------------------------------------------------
\* C9 as stated.  The displacement of a hostile that is jammed when its
\* update runs is exactly 20% of its nominal per-tick displacement.
\* ------------------------------------------------------------------
C9_JammedDisplacementExact ==
  (last.side = "hostile" /\ last.jammedAtCall)
  => last.displacement = (2 * last.nominalSpeed) \div 10

\* C9 as amended.  The displacement of a hostile that is jammed when its
\* update runs is exactly 20% of its nominal per-tick displacement if its
\* nearest asset is farther than 40 (or, with no asset left, its nearest
\* friendly is farther than 1), and is zero otherwise.
C9_JammedDisplacement ==
  [][(pc = "hostile" /\ hostileDrones[idx].isJammed /\ hostileDrones[idx].health > 0) =>
       LET self == hostileDrones[idx]
           nominal == IF self.type = "bomber" THEN BOMBER_SPEED ELSE HOSTILE_SPEED
           moves ==
             IF groundAssets # << >>
             THEN MinAssetDist(self, groundAssets) > (FIRING_RANGE * 8) \div 10
             ELSE /\ friendlyDrones # << >>
                  /\ \A k \in 1..Len(friendlyDrones) :
                        calculateDistance(self, friendlyDrones[k]) > U
       IN Abs(hostileDrones'[idx].x - self.x)
            = IF moves THEN (2 * nominal) \div 10 ELSE 0]_vars

\* A jammed hostile has just moved, by 20% of its nominal speed.
C9_Witness ==
  /\ last.side = "hostile"
  /\ last.jammedAtCall
  /\ last.displacement > 0
  /\ last.displacement = (2 * last.nominalSpeed) \div 10

\* ------------------------------------------------------------------
\* C10 as stated.  Whenever the jamming flag is enabled, whatever the
\* communication flag: every hostile with health > 0 within jamming range of
\* a friendly when that friendly is updated is marked jammed and loses the
\* jamming damage, and once the friendly loop has ended every live hostile
\* within jamming range of some friendly is jammed.
\* ------------------------------------------------------------------
C10_JammingAlways ==
  [][(pc = "friendly" /\ jammingEnabled) =>
       /\ \A k \in 1..Len(hostileDrones) :
            ( /\ hostileDrones[k].health > 0
              /\ calculateDistance(friendlyDrones[idx], hostileDrones[k]) <= JAMMING_RANGE )
            => /\ hostileDrones'[k].isJammed
               /\ hostileDrones'[k].health <= hostileDrones[k].health - JAM_DAMAGE
       /\ pc' # "friendly" =>
            \A k \in 1..Len(hostileDrones') :
               ( /\ hostileDrones'[k].health > 0
                 /\ \E j \in 1..Len(friendlyDrones') :
                       calculateDistance(friendlyDrones'[j], hostileDrones'[k]) <= JAMMING_RANGE )
               => hostileDrones'[k].isJammed]_vars

\* C10 as amended.  Whenever the jamming flag and the communication flag are
\* enabled, for every live friendly that performs no rescue move: every
\* hostile with health > 0 within jamming range of it when it is updated is
\* marked jammed and loses the jamming damage (0.1) from it, and stays marked
\* for the rest of the friendly loop; every other hostile keeps its mark as it
\* was.  With communication disabled, or in an update that performs a rescue
\* move, the friendly jams nothing.
C10_JammingUnderCommunication ==
  [][(pc = "friendly" /\ jammingEnabled) =>
       \A k \in 1..Len(hostileDrones) :
          LET h == hostileDrones[k]
              inReach == /\ h.health > 0
                         /\ calculateDistance(friendlyDrones[idx], h) <= JAMMING_RANGE
              shot == IF last'.log.fired /\ last'.log.firedAt = h.id
                      THEN FriendlyDamage(friendlyDrones[idx]) ELSE 0
          IN IF communication /\ ~last'.log.rescue /\ inReach
             THEN /\ hostileDrones'[k].isJammed
                  /\ hostileDrones'[k].health = h.health - JAM_DAMAGE - shot
             ELSE /\ hostileDrones'[k].isJammed = h.isJammed
                  /\ hostileDrones'[k].health = h.health - shot]_vars

\* A friendly, with both flags enabled and no rescue move, has just jammed a
\* hostile.
C10_Witness ==
  /\ last.side = "friendly"
  /\ communication
  /\ jammingEnabled
  /\ ~last.log.rescue
  /\ \E k \in 1..Len(friendlyDrones), j \in 1..Len(hostileDrones) :
        /\ friendlyDrones[k].id = last.id
        /\ friendlyDrones[k].jammingTargets # << >>
        /\ hostileDrones[j].id = friendlyDrones[k].jammingTargets[1]
        /\ hostileDrones[j].isJammed

\* ------------------------------------------------------------------
\* C11.  The jam mark is not sticky: a hostile's isJammed flag is true when
\* its update runs in tick t if and only if some friendly marked it during
\* the friendly loop of the same tick t (a mark of tick t-1 counts for
\* nothing), and while the jamming flag is disabled no hostile is jammed when
\* it is updated.
\* ------------------------------------------------------------------
C11_JamMarkNotSticky ==
  (pc # "idle" /\ last.side = "hostile") =>
    /\ last.jammedAtCall <=> last.id \in marked
    /\ ~jammingEnabled => ~last.jammedAtCall

\* A hostile that was marked in the tick before and is not marked in this one
\* has just been updated unjammed, and has fired or moved at its nominal speed.
C11_Witness ==
  /\ last.side = "hostile"
  /\ last.id \in markedPrev
  /\ last.id \notin marked
  /\ ~last.jammedAtCall
  /\ last.log.fired \/ last.displacement = last.nominalSpeed

\* ------------------------------------------------------------------
\* C12 as stated.  With communication enabled and at least two live
\* friendlies, a friendly that has no lost-mark and is farther than 300 from
\* the swarm centroid when its update is called has, after that update, a
\* lost-mark equal to the position it had when the update was called.
\* ------------------------------------------------------------------
C12_LostMarkAtCall ==
  ( /\ pc # "idle"
    /\ last.side = "friendly"
    /\ communication
    /\ last.rosterSize >= 2
    /\ ~last.lostAtCall
    /\ last.farAtCall )
  => \A k \in 1..Len(friendlyDrones) :
        friendlyDrones[k].id = last.id => friendlyDrones[k].lostCoords = <<last.xAtCall>>

KeepsMark(old, new) ==
  (old.lostCoords # NoCoords /\ new.lostCoords # NoCoords) => new.lostCoords = old.lostCoords

\* C12 as amended.  With communication enabled and at least two live
\* friendlies, a friendly that has no lost-mark and is farther than 300 from
\* the swarm centroid when its lost test runs has, after that update, a
\* lost-mark equal to its position at the lost test: the position it was
\* called at if the update makes no rescue move, else that position moved by
\* the rescue move (0.8 * 2.0 toward the first lost squadmate's mark).  A
\* lost-mark that is set is never overwritten or moved while it remains set.
C12_LostMark ==
  [][/\ (pc = "friendly" /\ communication /\ friendlyDrones[idx].lostCoords = NoCoords) =>
          LET self == friendlyDrones[idx]
              after == friendlyDrones'[idx]
              log == last'.log
          IN /\ (~log.rescue /\ FarFromSwarm(friendlyDrones, idx))
                  => after.lostCoords = <<self.x>>
             /\ (log.rescue /\ log.farAtLostTest)
                  => /\ after.lostCoords = <<log.xAtLostTest>>
                     /\ Abs(log.xAtLostTest - self.x) \in {0, (DRONE_SPEED * 8) \div 10}
     /\ ~(handleReset \/ SetFriendlyCount \/ SetHostileCount) =>
          Paired(friendlyDrones, friendlyDrones', KeepsMark)]_vars

\* A friendly without a lost-mark, farther than 300 from the centroid, has
\* just made a rescue move and recorded the position the move took it to.
C12_Witness ==
  /\ pc # "idle"
  /\ last.side = "friendly"
  /\ communication
  /\ ~last.lostAtCall
  /\ last.farAtCall
  /\ last.log.rescue
  /\ last.log.xAtLostTest # last.xAtCall
  /\ \E k \in 1..Len(friendlyDrones) :
        /\ friendlyDrones[k].id = last.id
        /\ friendlyDrones[k].lostCoords = <<last.log.xAtLostTest>>

RosterSizes == 1..4

C14_ExtendedLineSlot ==
  /\ \A M \in RosterSizes : \A i \in 0..(M - 1) :
        /\ ExtendedLineOffset2(i, M) = 2 * i * SLOT_SPACING - M * SLOT_SPACING
        /\ ExtendedLineOffset2(0, M) = -(M * SLOT_SPACING)
        /\ ExtendedLineOffset2(M - 1, M) = (M - 2) * SLOT_SPACING
  /\ [][(pc = "friendly" /\ last'.log.mode = "patrol" /\ groundAssets # << >>) =>
          LET self == friendlyDrones[idx]
              after == friendlyDrones'[idx]
              n == 2 * Len(groundAssets)
              slotN == 2 * SumX(groundAssets)
                         + Len(groundAssets) * (2 * (idx - 1) - Len(friendlyDrones)) * SLOT_SPACING
          IN /\ last'.log.slotOffset2 = (2 * (idx - 1) - Len(friendlyDrones)) * SLOT_SPACING
             /\ IF Abs(slotN - n * self.x) > SLOT_TOLERANCE * n
                THEN /\ after.vx = Sign(slotN - n * self.x) * (DRONE_SPEED \div 2)
                     /\ after.trail # << >>
                     /\ after.trail[1] = self.x + after.vx
                ELSE /\ after.vx = self.vx
                     /\ after.trail = self.trail]_vars

\* The last drone of a roster of at least two (index M-1) has just patrolled
\* and moved toward its slot.
C14_Witness ==
  /\ pc # "idle"
  /\ last.side = "friendly"
  /\ last.log.mode = "patrol"
  /\ last.rosterSize >= 2
  /\ last.index = last.rosterSize - 1
  /\ last.log.slotOffset2 = (last.rosterSize - 2) * SLOT_SPACING
  /\ last.displacement > 0
  /\ \E k \in 1..Len(friendlyDrones) :
        /\ friendlyDrones[k].id = last.id
        /\ Abs(friendlyDrones[k].vx) = DRONE_SPEED \div 2

\* ------------------------------------------------------------------
\* C15.  Reset idempotence: an initialisation under the configuration of the
\* first one, after any number of ticks, yields the same number of friendly
\* and hostile drones, the same category and full health for each drone, and
\* the same asset roster with every asset at its preset health as the first
\* initialisation did; and no tick modifies the map preset.
\* ------------------------------------------------------------------
C15_ResetIdempotent ==
  /\ mapConfigs = ConvoyAssets
  /\ ( /\ initBy # "none"
       /\ friendlyCount = firstInit.friendlyCount
       /\ bomberCount = firstInit.bomberCount
       /\ hostileCount = firstInit.hostileCount
       /\ hostileBomberCount = firstInit.hostileBomberCount )
     => /\ InitSummary([f |-> friendlyDrones, h |-> hostileDrones, a |-> groundAssets])
             = firstInit.summary
        /\ Len(friendlyDrones) = friendlyCount + bomberCount
        /\ Len(hostileDrones) = hostileCount + hostileBomberCount
        /\ \A k \in 1..Len(friendlyDrones) :
              friendlyDrones[k].health =
                 IF friendlyDrones[k].type = "bomber" THEN 150 * HP ELSE 100 * HP
        /\ \A k \in 1..Len(hostileDrones) :
              hostileDrones[k].health =
                 IF hostileDrones[k].type = "bomber" THEN 150 * HP ELSE 100 * HP
        /\ groundAssets = ConvoyAssets

\* After at least one tick of the run that destroys a friendly and damages
\* assets, the simulation has been reset under its first configuration.
C15_Witness ==
  /\ initBy = "reset"
  /\ tick >= 1
  /\ friendlyCount = 2
  /\ hostileBomberCount = 1
  /\ friendlyCount = firstInit.friendlyCount
  /\ hostileCount = firstInit.hostileCount
  /\ Len(friendlyDrones) = 2
  /\ groundAssets = ConvoyAssets

\* ------------------------------------------------------------------
\* C16.  After every initialisation, by the reset control or by a change of
\* the configuration, the friendly-losses counter is 0, the cumulative
\* eliminated-hostiles total is 0 and the destroyed-asset archive is empty.
\* ------------------------------------------------------------------
C16_InitializeResetsAll ==
  initBy # "none" =>
    /\ friendlyLosses = 0
    /\ stats.eliminated = 0
    /\ destroyedAssets = << >>

\* ------------------------------------------------------------------
\* C17.  At every tick boundary since the last initialisation, each removed
\* entity has been counted exactly once: friendlyLosses plus the number of
\* live friendlies is the number of friendlies the initialisation created, the
\* live assets and the archive together number the assets of the map preset,
\* no asset is in both collections and none is twice in the archive.
\* ------------------------------------------------------------------
C17_RemovedCountedOnce ==
  pc = "idle" =>
    /\ friendlyLosses + Len(friendlyDrones) = friendlyCount + bomberCount
    /\ Len(groundAssets) + Len(destroyedAssets) = Len(mapConfigs)
    /\ \A j \in 1..Len(groundAssets), k \in 1..Len(destroyedAssets) :
          groundAssets[j].id # destroyedAssets[k].id
    /\ \A j, k \in 1..Len(destroyedAssets) :
          destroyedAssets[j].id = destroyedAssets[k].id => j = k

\* A tick has ended that removed a friendly and archived an asset.
C17_Witness ==
  /\ pc = "idle"
  /\ tick >= 1
  /\ initBy = "none"
  /\ friendlyLosses > 0
  /\ Len(friendlyDrones) < friendlyCount + bomberCount
  /\ destroyedAssets # << >>
  /\ Len(groundAssets) < Len(mapConfigs)

RECURSIVE TotalOf(_, _)
TotalOf(assets, field) ==
  IF assets = << >> THEN 0 ELSE Head(assets)[field] + TotalOf(Tail(assets), field)

C19_PublishedIntegrity ==
  /\ Integrity(<< >>, << >>) = 0
  /\ (pc = "idle" /\ tick >= 1 /\ lastUiUpdate = now) =>
     LET th == TotalOf(groundAssets, "health")
         tm == TotalOf(groundAssets, "maxHealth") + TotalOf(destroyedAssets, "maxHealth")
         p == stats.integrity
     IN IF tm = 0 THEN p = 0
        ELSE /\ p \in 0..100
             /\ 2 * p * tm - tm <= 200 * th
             /\ 200 * th < 2 * p * tm + tm

\* A scheduled publish has just run with an asset in the archive and live
\* assets left.
C19_Witness ==
  /\ pc = "idle"
  /\ tick >= 1
  /\ lastUiUpdate = now
  /\ destroyedAssets # << >>
  /\ groundAssets # << >>
  /\ stats.integrity \in 1..99

\* ------------------------------------------------------------------
\* C20.  Every asset in the destroyed-asset archive has health exactly 0, and
\* its health does not change for as long as it stays in the archive.
\* ------------------------------------------------------------------
C20_ArchivedHealthZero ==
  /\ [](\A k \in 1..Len(destroyedAssets) : destroyedAssets[k].health = 0)
  /\ [][\A k \in 1..Len(destroyedAssets) :
           k <= Len(destroyedAssets') =>
              (destroyedAssets'[k].id = destroyedAssets[k].id
                 => destroyedAssets'[k].health = destroyedAssets[k].health)]_vars

\* ------------------------------------------------------------------
\* C21.  For every drone, any two successful fires are separated by at least
\* the cooldown (100 ms), whatever the tick cadence: a drone's lastFired
\* changes only to the current time and only when the cooldown since its old
\* value is over; a fire attempted inside the cooldown changes neither the
\* target's health nor the attacker's lastFired.
\* ------------------------------------------------------------------
FiresAfterCooldown(old, new) ==
  new.lastFired # old.lastFired =>
     new.lastFired = now /\ now - old.lastFired >= FIRE_COOLDOWN

SameLastFired(old, new) == new.lastFired = old.lastFired

C21_FireCooldown ==
  [][/\ Paired(friendlyDrones, friendlyDrones', FiresAfterCooldown)
     /\ Paired(hostileDrones, hostileDrones', FiresAfterCooldown)
     /\ last'.log.fired => now - last'.lastFiredAtCall >= FIRE_COOLDOWN
     /\ ( /\ pc = "friendly"
          /\ last'.log.mode = "engage"
          /\ last'.log.distance <= FIRING_RANGE
          /\ now - friendlyDrones[idx].lastFired < FIRE_COOLDOWN )
        => /\ ~last'.log.fired
           /\ Paired(friendlyDrones, friendlyDrones', SameLastFired)
           /\ \A k \in 1..Len(hostileDrones) :
                 hostileDrones'[k].health =
                    hostileDrones[k].health
                      - (IF jammingEnabled /\ InJammingReach(friendlyDrones[idx], hostileDrones[k])
                         THEN JAM_DAMAGE ELSE 0)
     /\ ( /\ pc = "hostile"
          /\ last'.log.mode \in {"selfDefense", "asset"}
          /\ now - hostileDrones[idx].lastFired < FIRE_COOLDOWN )
        => /\ ~last'.log.fired
           /\ Paired(hostileDrones, hostileDrones', SameLastFired)
           /\ Paired(friendlyDrones, friendlyDrones', SameHealth)
           /\ Paired(groundAssets, groundAssets', SameHealth)]_vars

\* A drone that fired in an earlier tick of the run has just fired again, the
\* cooldown over.
C21_Witness ==
  /\ last.side \in {"friendly", "hostile"}
  /\ last.log.fired
  /\ last.lastFiredAtCall > StartTime
  /\ now - last.lastFiredAtCall >= FIRE_COOLDOWN

\* ------------------------------------------------------------------
\* C22.  Within every tick the phases come in this order: every hostile jam
\* flag is cleared before any friendly is updated; every live friendly is
\* updated before any hostile is; every drone update is over before the
\* casualty partition; the casualty partition is over before the statistics
\* publish.
\* ------------------------------------------------------------------
IdsOf(drones) == {drones[k].id : k \in 1..Len(drones)}

C22_PhaseOrder ==
  /\ [](pc = "friendly" =>
          /\ updated \cap IdsOf(hostileDrones) = {}
          /\ \A k \in 1..Len(hostileDrones) :
                hostileDrones[k].isJammed => hostileDrones[k].id \in marked)
  /\ [](pc = "hostile" => IdsOf(friendlyDrones) \subseteq updated)
  /\ [](pc = "partition" =>
          /\ IdsOf(friendlyDrones) \subseteq updated
          /\ \A k \in 1..Len(hostileDrones) :
                hostileDrones[k].health > 0 => hostileDrones[k].id \in updated)
  /\ [][/\ pc = "idle" => pc' \in {"idle", "friendly", "hostile", "partition"}
        /\ pc = "friendly" => pc' \in {"friendly", "hostile", "partition"}
        /\ pc = "hostile" => pc' \in {"hostile", "partition"}
        /\ pc = "partition" => pc' = "publish"
        /\ pc = "publish" => pc' = "idle"
        /\ (pc = "idle" /\ pc' # "idle") =>
              \A k \in 1..Len(hostileDrones') : ~hostileDrones'[k].isJammed
        /\ pc = "publish" => UNCHANGED <<friendlyDrones, hostileDrones, groundAssets,
                                         destroyedAssets, friendlyLosses>>
        /\ pc # "partition" =>
              /\ Len(friendlyDrones') = Len(friendlyDrones)
              /\ Len(hostileDrones') = Len(hostileDrones)
              /\ Len(groundAssets') = Len(groundAssets)
              /\ UNCHANGED <<destroyedAssets, friendlyLosses>>
        /\ pc # "publish" => UNCHANGED <<lastUiUpdate, stats>>]_vars

\* The partition of a tick is over and its publish is due: two friendlies and
\* a hostile that was jammed in the tick before have been updated, in that
\* order.
C22_Witness ==
  /\ pc = "publish"
  /\ tick = 2
  /\ Cardinality(updated \cap IdsOf(friendlyDrones)) >= 2
  /\ updated \cap IdsOf(hostileDrones) # {}
  /\ markedPrev # {}

\* C23: over any interleaving of start, halt, reset and flag toggles with
\* frame callbacks, at most one animation frame is pending at any time; a
\* tick that has started runs to its end before any of these events is
\* handled; and once a halt has taken effect no tick runs until the run is
\* started again.
C23_OneFramePending ==
  /\ [](Len(animationFrames) <= 1)
  /\ [](~isRunning => pc = "idle" /\ animationFrames = << >>)
  /\ [][ /\ pc # "idle" =>
              (/\ isRunning' = isRunning
               /\ communication' = communication
               /\ jammingEnabled' = jammingEnabled
               /\ initBy' = initBy
               /\ (pc # "publish" => hostVars' = hostVars))
         /\ ~isRunning => (tick' = tick /\ pc' = "idle")
         /\ tick' # tick => (/\ isRunning /\ isRunning'
                             /\ Len(animationFrames) = 1
                             /\ animationFrames' = << >>) ]_vars

\* A halted run that has ticked, with both flags toggled since the mount.
C23_Witness ==
  /\ ~isRunning
  /\ tick >= 2
  /\ ~communication
  /\ jammingEnabled
  /\ initBy = "reset"
  /\ animationId = StaleFrame
  /\ animationFrames = << >>

\* The hostile of the roster with this id, as a set of indices.
HostileAt(id) == {k \in 1..Len(hostileDrones) : hostileDrones[k].id = id}

\* C24: with communication enabled and no rescue move, a friendly that has
\* selected a target pursues it or fires at it (calls fireAt on it, which
\* the cooldown may block) in that tick exactly when the target is within
\* 150 of some asset, or its own distance to the target is under 200, or
\* fewer than 30% of the roster are other friendlies that already hold that
\* hostile as target; otherwise it neither moves to the target nor fires,
\* and stays within 100 of the asset centroid or moves to the centroid at
\* half speed.
C24_EngageCondition ==
  [][ (pc = "friendly" /\ communication /\ ~last'.log.rescue
         /\ last'.log.selected # NoTarget) =>
      \E t \in HostileAt(last'.log.selected) :
        LET self == friendlyDrones[idx]
            after == friendlyDrones'[idx]
            h == hostileDrones[t]
            dist == Abs(self.x - h.x)
            jam == IF jammingEnabled /\ InJammingReach(self, h) THEN JAM_DAMAGE ELSE 0
            others == {k \in 1..Len(friendlyDrones) :
                         k # idx /\ friendlyDrones[k].target = h.id}
            engages ==
              \/ \E a \in 1..Len(groundAssets) :
                    Abs(h.x - groundAssets[a].x) <= THREATENING_RANGE
              \/ dist < ENGAGE_DISTANCE
              \/ 10 * Cardinality(others) < 3 * Len(friendlyDrones)
            n == Len(groundAssets)
        IN /\ after.target = h.id
           /\ engages =>
                /\ last'.log.mode = "engage"
                /\ IF dist <= FIRING_RANGE
                   THEN /\ after.x = self.x
                        /\ IF now - self.lastFired >= FIRE_COOLDOWN
                           THEN /\ after.lastFired = now
                                /\ hostileDrones'[t].health
                                     = h.health - jam - FriendlyDamage(self)
                           ELSE /\ after.lastFired = self.lastFired
                                /\ hostileDrones'[t].health = h.health - jam
                   ELSE /\ Abs(after.x - h.x) = dist - DRONE_SPEED
                        /\ after.lastFired = self.lastFired
                        /\ hostileDrones'[t].health = h.health - jam
           /\ ~engages =>
                /\ last'.log.mode = "defend"
                /\ ~last'.log.fired
                /\ after.lastFired = self.lastFired
                /\ hostileDrones'[t].health = h.health - jam
                /\ IF n > 0 /\ Abs(n * self.x - SumX(groundAssets)) > DEFENSIVE_RADIUS * n
                   THEN /\ Abs(after.x - self.x) = DRONE_SPEED \div 2
                        /\ Abs(n * after.x - SumX(groundAssets))
                             < Abs(n * self.x - SumX(groundAssets))
                   ELSE after.x = self.x ]_vars

\* A friendly has just declined a target that is far from it and from every
\* asset and that enough of the others hold, after another friendly pursued
\* a far target in the same run.
C24_Witness ==
  /\ last.side = "friendly"
  /\ communication
  /\ last.log.mode = "defend"
  /\ ~last.log.critical
  /\ last.log.distance >= ENGAGE_DISTANCE
  /\ farPursuers # {}

\* The type term of the score friendlyDrones[i] gives hostileDrones[k]: the
\* score less its proximity, critical, ground-attack and saturation terms.
TypeTermOf(i, k) ==
  LET h == hostileDrones[k]
      near == {a \in 1..Len(groundAssets) :
                 \A b \in 1..Len(groundAssets) :
                    Abs(h.x - groundAssets[a].x) <= Abs(h.x - groundAssets[b].x)}
      first == CHOOSE a \in near : \A b \in near : a <= b
      critical == IF near # {} /\ Abs(h.x - groundAssets[first].x) <= THREATENING_RANGE
                  THEN 1000 + 10 * (IF groundAssets[first].priority = 0 THEN 5
                                    ELSE groundAssets[first].priority)
                  ELSE 0
      holders == {j \in 1..Len(friendlyDrones) :
                    j # i /\ friendlyDrones[j].target = h.id}
  IN calculateThreatScore(friendlyDrones[i], i, h, groundAssets, friendlyDrones, TRUE).base
       - critical - 100 + 30 * Cardinality(holders)

LiveFriendlyBomber ==
  \E j \in 1..Len(friendlyDrones) :
     friendlyDrones[j].type = "bomber" /\ friendlyDrones[j].health > 0

\* The type term with heavy support, and without.
SupportedTerm(h) == IF h.type = "drone" THEN 2000 ELSE -500
StandardTerm(h) == IF h.type = "bomber" THEN 500 ELSE 0

\* C25 as stated: in the threat score any friendly computes, interceptor or
\* bomber, the type term is +2000 for a hostile interceptor and -500 for a
\* hostile bomber while a live friendly bomber exists, and +500 for a
\* hostile bomber and nothing for a hostile interceptor while none exists.
C25_TypeTermAnyScorer ==
  [][ (pc = "friendly" /\ last'.log.selected # NoTarget) =>
      \A k \in 1..Len(hostileDrones) :
         TypeTermOf(idx, k) = IF LiveFriendlyBomber THEN SupportedTerm(hostileDrones[k])
                              ELSE StandardTerm(hostileDrones[k]) ]_vars

\* C25, amended: the type term is +2000 for a hostile interceptor and -500
\* for a hostile bomber in the score a friendly interceptor computes while a
\* live friendly bomber exists; in the score a friendly bomber computes, and
\* in any score while no live friendly bomber exists, it is +500 for a
\* hostile bomber and nothing for a hostile interceptor.
C25_TypeTermByScorer ==
  [][ (pc = "friendly" /\ last'.log.selected # NoTarget) =>
      \A k \in 1..Len(hostileDrones) :
         TypeTermOf(idx, k) =
           IF friendlyDrones[idx].type = "drone" /\ LiveFriendlyBomber
           THEN SupportedTerm(hostileDrones[k])
           ELSE StandardTerm(hostileDrones[k]) ]_vars

\* A friendly bomber has just scored the hostiles and selected one.
C25_Witness ==
  /\ last.side = "friendly"
  /\ last.log.selected # NoTarget
  /\ \E j \in 1..Len(friendlyDrones) :
        /\ friendlyDrones[j].id = last.id
        /\ friendlyDrones[j].type = "bomber"
        /\ friendlyDrones[j].health > 0

\* The score friendlyDrones[i] gives hostileDrones[k].
ScoreOf(i, k) ==
  calculateThreatScore(friendlyDrones[i], i, hostileDrones[k], groundAssets,
                       friendlyDrones, TRUE)

\* C26: the hostile a friendly selects has a score no lower than that of any
\* other hostile, and a strictly higher one than every hostile before it in
\* the roster (among the hostiles of maximal score it is the first); a
\* friendly that decides selects none only when the roster is empty.
C26_FirstOfMaximalScore ==
  [][ (pc = "friendly" /\ last'.log.mode \in {"patrol", "engage", "defend"}) =>
      IF last'.log.selected = NoTarget
      THEN hostileDrones = << >> /\ friendlyDrones'[idx].target = NoTarget
      ELSE \E t \in HostileAt(last'.log.selected) :
             /\ friendlyDrones'[idx].target = hostileDrones[t].id
             /\ \A k \in 1..Len(hostileDrones) :
                   ~ScoreGreater(ScoreOf(idx, k), ScoreOf(idx, t))
             /\ \A k \in 1..(t - 1) :
                   ScoreGreater(ScoreOf(idx, t), ScoreOf(idx, k)) ]_vars

\* A friendly has just selected the first of two hostiles that are of one
\* type, at one position and held by no other friendly: two equal scores.
C26_Witness ==
  /\ last.side = "friendly"
  /\ Len(hostileDrones) >= 2
  /\ last.log.selected = hostileDrones[1].id
  /\ hostileDrones[2].x = hostileDrones[1].x
  /\ hostileDrones[2].type = hostileDrones[1].type
  /\ \A j \in 1..Len(friendlyDrones) :
        friendlyDrones[j].id # last.id => friendlyDrones[j].target = NoTarget

\* C27: while communication is disabled, the update of a friendly changes
\* nothing but its own position, velocity and trail, and empties its
\* jammingTargets: no hostile and no asset changes (no health, no isJammed),
\* it fires at nothing, and its target, isEngaging and lastFired and every
\* friendly's lost-mark stay as they were, with jamming enabled or not.
C27_AutonomousMovesOnly ==
  [][ (pc = "friendly" /\ ~communication) =>
      /\ hostileDrones' = hostileDrones
      /\ groundAssets' = groundAssets
      /\ ~last'.log.fired
      /\ Len(friendlyDrones') = Len(friendlyDrones)
      /\ \A j \in 1..Len(friendlyDrones) :
            IF j = idx
            THEN friendlyDrones'[j] =
                   [friendlyDrones[j] EXCEPT !.x = friendlyDrones'[j].x,
                                             !.vx = friendlyDrones'[j].vx,
                                             !.trail = friendlyDrones'[j].trail,
                                             !.jammingTargets = << >>]
            ELSE friendlyDrones'[j] = friendlyDrones[j] ]_vars

\* A friendly that holds a target has just moved without communication, with
\* jamming enabled and a live hostile within jamming range, while a friendly
\* carries a lost-mark.
C27_Witness ==
  /\ last.side = "friendly"
  /\ last.log.mode = "autonomous"
  /\ ~communication
  /\ jammingEnabled
  /\ last.displacement > 0
  /\ \E j \in 1..Len(friendlyDrones) :
        /\ friendlyDrones[j].id = last.id
        /\ friendlyDrones[j].target # NoTarget
        /\ \E k \in 1..Len(hostileDrones) : InJammingReach(friendlyDrones[j], hostileDrones[k])
  /\ \E j \in 1..Len(friendlyDrones) : friendlyDrones[j].lostCoords # NoCoords

\* The other friendlies that carry a lost-mark and are not within 100 of
\* friendlyDrones[i].
LostOutOfReach(i) ==
  {j \in 1..Len(friendlyDrones) :
     /\ j # i
     /\ friendlyDrones[j].lostCoords # NoCoords
     /\ Abs(friendlyDrones[i].x - friendlyDrones[j].x) >= RECONNECT_RADIUS}

\* C28: with communication enabled, a friendly makes at most one rescue move
\* in a tick: a single step of 80% of the drone speed toward the recorded
\* position of the first friendly in roster order that carries a lost-mark
\* and is not within 100 of it; in a tick with a rescue move it does not
\* fire, jams nothing, keeps its target and isEngaging, and moves no more.
C28_OneRescueMove ==
  [][ (pc = "friendly" /\ communication /\ last'.log.rescue) =>
      /\ LostOutOfReach(idx) # {}
      /\ LET self == friendlyDrones[idx]
             after == friendlyDrones'[idx]
             j == CHOOSE j \in LostOutOfReach(idx) :
                    \A k \in LostOutOfReach(idx) : j <= k
             goal == friendlyDrones[j].lostCoords[1]
         IN /\ after.x = IF Abs(goal - self.x) > U
                         THEN self.x + Sign(goal - self.x) * ((DRONE_SPEED * 8) \div 10)
                         ELSE self.x
            /\ after.target = self.target
            /\ after.isEngaging = self.isEngaging
            /\ after.lastFired = self.lastFired
            /\ after.jammingTargets = << >>
      /\ ~last'.log.fired
      /\ hostileDrones' = hostileDrones
      /\ groundAssets' = groundAssets ]_vars

\* A friendly has just made a rescue move with jamming enabled, a hostile
\* within its jamming range, and two other friendlies that carry a lost-mark
\* out of its reach.
C28_Witness ==
  /\ last.side = "friendly"
  /\ last.log.rescue
  /\ jammingEnabled
  /\ last.displacement = (DRONE_SPEED * 8) \div 10
  /\ \E i \in 1..Len(friendlyDrones) :
        /\ friendlyDrones[i].id = last.id
        /\ Cardinality(LostOutOfReach(i)) >= 2
        /\ \E k \in 1..Len(hostileDrones) : InJammingReach(friendlyDrones[i], hostileDrones[k])

\* C29: the position of a hostile is integrated at most once in a tick: its
\* update makes at most one move, and its displacement over the update never
\* exceeds its speed for that tick, the speed of its type when it is not
\* jammed and 20% of it when it is.
C29_HostileMovesOnce ==
  [][ (pc = "hostile" /\ last'.side = "hostile") =>
      /\ last'.log.moves <= 1
      /\ Abs(hostileDrones'[idx].x - hostileDrones[idx].x)
           <= IF hostileDrones[idx].isJammed
              THEN (2 * (IF hostileDrones[idx].type = "bomber"
                         THEN BOMBER_SPEED ELSE HOSTILE_SPEED)) \div 10
              ELSE IF hostileDrones[idx].type = "bomber"
                   THEN BOMBER_SPEED ELSE HOSTILE_SPEED ]_vars

\* C30: a successful fire lowers the health of exactly one entity, its
\* target, by the amount of the pairing: friendly interceptor on hostile 2,
\* friendly bomber on hostile 20, hostile interceptor on friendly 1.5,
\* hostile bomber on friendly 15, hostile interceptor on asset 5, hostile
\* bomber on asset 50.  (The jamming of the same friendly update is not part
\* of the fire: it takes its 0.1 from every hostile within jamming range.)
C30_DamageTable ==
  [][ (pc \in {"friendly", "hostile"} /\ last'.log.fired) =>
      LET attacker == IF pc = "friendly" THEN friendlyDrones[idx] ELSE hostileDrones[idx]
          kind == last'.log.firedKind
          amount == IF pc = "friendly"
                    THEN (IF attacker.type = "bomber" THEN 20 * HP ELSE 2 * HP)
                    ELSE IF kind = "friendly"
                    THEN (IF attacker.type = "bomber" THEN 15 * HP ELSE (3 * HP) \div 2)
                    ELSE (IF attacker.type = "bomber" THEN 50 * HP ELSE 5 * HP)
          fire(k, e) == IF kind = k /\ e.id = last'.log.firedAt THEN amount ELSE 0
          jam(h) == IF pc = "friendly" /\ jammingEnabled
                       /\ InJammingReach(friendlyDrones[idx], h)
                    THEN JAM_DAMAGE ELSE 0
          HitHostile(old, new) ==
            new.health = old.health - jam(old) - fire("hostile", old)
          HitFriendly(old, new) == new.health = old.health - fire("friendly", old)
          HitAsset(old, new) == new.health = old.health - fire("asset", old)
      IN /\ pc = "friendly" => kind = "hostile"
         /\ pc = "hostile" => kind \in {"friendly", "asset"}
         /\ Len(friendlyDrones') = Len(friendlyDrones)
         /\ Len(hostileDrones') = Len(hostileDrones)
         /\ Len(groundAssets') = Len(groundAssets)
         /\ Paired(hostileDrones, hostileDrones', HitHostile)
         /\ Paired(friendlyDrones, friendlyDrones', HitFriendly)
         /\ Paired(groundAssets, groundAssets', HitAsset)
         /\ \/ \E k \in 1..Len(hostileDrones) :
                 kind = "hostile" /\ hostileDrones[k].id = last'.log.firedAt
            \/ \E k \in 1..Len(friendlyDrones) :
                 kind = "friendly" /\ friendlyDrones[k].id = last'.log.firedAt
            \/ \E k \in 1..Len(groundAssets) :
                 kind = "asset" /\ groundAssets[k].id = last'.log.firedAt ]_vars

\* A friendly bomber has just fired, with jamming enabled, on a hostile, which
\* has lost 20 to the fire.
C30_Witness ==
  /\ last.side = "friendly"
  /\ last.log.fired
  /\ jammingEnabled
  /\ \E j \in 1..Len(friendlyDrones) :
        friendlyDrones[j].id = last.id /\ friendlyDrones[j].type = "bomber"
  /\ \E k \in 1..Len(hostileDrones) :
        /\ hostileDrones[k].id = last.log.firedAt
        /\ hostileDrones[k].health = last.log.firedAtHealth - 20 * HP

RECURSIVE IsSubSeq(_, _)
\* s is t with some of its elements left out.
IsSubSeq(s, t) ==
  IF s = << >> THEN TRUE
  ELSE IF t = << >> THEN FALSE
  ELSE IF Head(s) = Head(t) THEN IsSubSeq(Tail(s), Tail(t))
  ELSE IsSubSeq(s, Tail(t))

\* The ids of a collection, in its order.
IdSeq(entities) == [k \in 1..Len(entities) |-> entities[k].id]

\* C31: a tick never creates an entity and removes entities only in its
\* casualty partition: outside initSimulation, the partition leaves each live
\* collection a sub-sequence of what it was (same entities, same relative
\* order, those of health > 0 only), and every other step leaves the
\* membership and order of the three collections as they were.
C31_OnlyPartitionRemoves ==
  [][ ~(handleReset \/ SetFriendlyCount \/ SetHostileCount) =>
      IF pc = "partition"
      THEN /\ IsSubSeq(friendlyDrones', friendlyDrones)
           /\ IsSubSeq(hostileDrones', hostileDrones)
           /\ IsSubSeq(groundAssets', groundAssets)
           /\ \A k \in 1..Len(friendlyDrones) :
                 friendlyDrones[k].health > 0
                   <=> \E j \in 1..Len(friendlyDrones') :
                          friendlyDrones'[j].id = friendlyDrones[k].id
           /\ \A k \in 1..Len(hostileDrones) :
                 hostileDrones[k].health > 0
                   <=> \E j \in 1..Len(hostileDrones') :
                          hostileDrones'[j].id = hostileDrones[k].id
           /\ \A k \in 1..Len(groundAssets) :
                 groundAssets[k].health > 0
                   <=> \E j \in 1..Len(groundAssets') :
                          groundAssets'[j].id = groundAssets[k].id
      ELSE /\ IdSeq(friendlyDrones') = IdSeq(friendlyDrones)
           /\ IdSeq(hostileDrones') = IdSeq(hostileDrones)
           /\ IdSeq(groundAssets') = IdSeq(groundAssets) ]_vars

\* A partition has just removed the first friendly of the roster and an asset
\* from inside the asset list, and the survivors are left.
C31_Witness ==
  /\ pc = "publish"
  /\ friendlyDrones # << >>
  /\ friendlyDrones[1].id = "F-2"
  /\ Len(groundAssets) >= 2
  /\ Len(groundAssets) < Len(ConvoyAssets)
  /\ groundAssets[1].id = ConvoyAssets[1].id
  /\ groundAssets[Len(groundAssets)].id # ConvoyAssets[Len(groundAssets)].id

\* The triangular number r(r+1)/2: the roster index of the first drone of row r.
RowStart(r) == (r * (r + 1)) \div 2

\* C32: under the spearhead formation the drone of roster index i gets the
\* row r that is the one integer with r(r+1)/2 <= i < (r+1)(r+2)/2 and the
\* column c = i - r(r+1)/2, so that 0 <= c <= r, and its slot offset from the
\* asset centroid is x = (c - r/2) * spacing, y = (r - 1.5) * spacing; the
\* row loop ends for every index (its result is defined).
C32_SpearheadSlot ==
  slot.formation = "spearhead" =>
    LET rows == {r \in 0..slot.index :
                   RowStart(r) <= slot.index /\ slot.index < RowStart(r + 1)}
    IN /\ Cardinality(rows) = 1
       /\ \A r \in rows :
             LET c == slot.index - RowStart(r)
             IN /\ 0 <= c /\ c <= r
                /\ SpearheadRow(slot.index, 0) = [r |-> r, remaining |-> c]
                /\ 2 * slot.offset[1] = (2 * c - r) * SLOT_SPACING
                /\ 2 * slot.offset[2] = (2 * r - 3) * SLOT_SPACING

\* The slot of roster index 4 has been computed: row 2, column 1, at the
\* middle of its row and half a spacing behind the centroid.
C32_Witness ==
  /\ slot.formation = "spearhead"
  /\ slot.index = 4
  /\ slot.offset = <<0, SLOT_SPACING \div 2>>

\* A trail after one more moveTo call that left the drone at x: x in front,
\* the oldest entry dropped when that makes more than ten.
Pushed(trail, x) ==
  IF Len(trail) >= TRAIL_CAPACITY
  THEN <<x>> \o SubSeq(trail, 1, TRAIL_CAPACITY - 1)
  ELSE <<x>> \o trail

\* C33: the trail of every drone holds at most 10 positions in every
\* reachable state, and right after each moveTo call its first element is the
\* position of the drone as that call left it, the older entries following.
\* (An update of a friendly calls moveTo at most once; the idle hover of the
\* autonomous mode moves the drone without a call, and in patrol
\* applySeparation moves it after the call.  An update of a hostile calls
\* moveTo up to twice.)
C33_TrailNewestFirst ==
  /\ [](/\ \A k \in 1..Len(friendlyDrones) :
              Len(friendlyDrones[k].trail) <= TRAIL_CAPACITY
        /\ \A k \in 1..Len(hostileDrones) :
              Len(hostileDrones[k].trail) <= TRAIL_CAPACITY)
  /\ [][ /\ pc = "friendly" =>
              LET self == friendlyDrones[idx]
                  after == friendlyDrones'[idx]
              IN \/ /\ after.trail = self.trail
                    /\ after.x = self.x \/ last'.log.mode \in {"autonomous", "patrol"}
                 \/ /\ last'.log.mode # "patrol"
                    /\ after.trail = Pushed(self.trail, after.x)
                 \/ /\ last'.log.mode = "patrol"
                    /\ after.trail = Pushed(self.trail, self.x + after.vx)
         /\ (pc = "hostile" /\ last'.side = "hostile") =>
              LET self == hostileDrones[idx]
                  after == hostileDrones'[idx]
                  step == IF self.isJammed
                          THEN (2 * last'.nominalSpeed) \div 10 ELSE last'.nominalSpeed
              IN \/ after.trail = self.trail /\ after.x = self.x
                 \/ after.trail = Pushed(self.trail, after.x)
                 \/ \E mid \in {self.x, self.x + step, self.x - step} :
                       after.trail = Pushed(Pushed(self.trail, mid), after.x) ]_vars

\* A friendly with a full trail has just moved for the second time: its
\* position is in front of the trail and the previous two behind it.
C33_Witness ==
  /\ last.side = "friendly"
  /\ \E k \in 1..Len(friendlyDrones) :
        /\ friendlyDrones[k].id = last.id
        /\ Len(friendlyDrones[k].trail) = TRAIL_CAPACITY
        /\ friendlyDrones[k].trail[1] = friendlyDrones[k].x
        /\ friendlyDrones[k].trail[1] # friendlyDrones[k].trail[2]
        /\ friendlyDrones[k].trail[2] # friendlyDrones[k].trail[3]

\* C34: in every reachable state every friendly reports isEngaging exactly
\* when its target is non-null, and no hostile has a target or isEngaging set.
C34_EngagingIffTarget ==
  /\ \A k \in 1..Len(friendlyDrones) :
        friendlyDrones[k].isEngaging <=> (friendlyDrones[k].target # NoTarget)
  /\ \A k \in 1..Len(hostileDrones) :
        hostileDrones[k].target = NoTarget /\ ~hostileDrones[k].isEngaging

\* A friendly has just lost its target and gone to patrol while another one
\* holds a target and reports isEngaging.
C34_Witness ==
  /\ last.side = "friendly"
  /\ last.log.mode = "patrol"
  /\ \E k, j \in 1..Len(friendlyDrones) :
        /\ friendlyDrones[k].id = last.id
        /\ friendlyDrones[k].target = NoTarget
        /\ ~friendlyDrones[k].isEngaging
        /\ friendlyDrones[j].target # NoTarget
        /\ friendlyDrones[j].isEngaging

\* The ids of the entities whose health a step has lowered.
Lowered(before, after) ==
  {before[k].id : k \in {n \in 1..Len(before) :
                           \E j \in 1..Len(after) : /\ after[j].id = before[n].id
                                                    /\ after[j].health < before[n].health}}

\* C35: damage never crosses within a side.  The health of a friendly is
\* lowered only by the fire of a hostile at it, the health of an asset only by
\* the fire of a hostile at it, and the health of a hostile only by the fire
\* or the jamming of a friendly; so the update of a friendly lowers the health
\* of no friendly and no asset, and the update of a hostile that of no hostile.
C35_NoDamageWithinSide ==
  [][ /\ Lowered(friendlyDrones, friendlyDrones') # {} =>
            (/\ pc = "hostile"
             /\ last'.side = "hostile"
             /\ last'.log.fired
             /\ last'.log.mode = "selfDefense"
             /\ Lowered(friendlyDrones, friendlyDrones') = {last'.log.firedAt})
      /\ Lowered(groundAssets, groundAssets') # {} =>
            (/\ pc = "hostile"
             /\ last'.side = "hostile"
             /\ last'.log.fired
             /\ last'.log.mode = "asset"
             /\ Lowered(groundAssets, groundAssets') = {last'.log.firedAt})
      /\ Lowered(hostileDrones, hostileDrones') # {} =>
            (/\ pc = "friendly"
             /\ last'.side = "friendly"
             /\ \A id \in Lowered(hostileDrones, hostileDrones') :
                   \/ last'.log.fired /\ last'.log.firedAt = id
                   \/ \E n \in 1..Len(friendlyDrones'[idx].jammingTargets) :
                         friendlyDrones'[idx].jammingTargets[n] = id) ]_vars

\* A hostile has just fired at a friendly, whose health is lower than the fire
\* found it.
C35_Witness ==
  /\ last.side = "hostile"
  /\ last.log.fired
  /\ last.log.mode = "selfDefense"
  /\ \E k \in 1..Len(friendlyDrones) :
        /\ friendlyDrones[k].id = last.log.firedAt
        /\ friendlyDrones[k].health < last.log.firedAtHealth

\* Runs of the frame loop alone, communication enabled throughout, from a
\* swarm one of whose members pursues a hostile away from its lost-mark and
\* from the same swarm as the others arrive at the mark.  While isRunning
\* holds every frame requests the next one (line 1245), so the steps of the
\* loop are taken for as long as they are enabled.
RescueScenarios == {PursuitScenario, ArrivalScenario}

InitRescue ==
  InitFrom(RescueScenarios, [communication : {TRUE}, jammingEnabled : BOOLEAN])

NextRescue ==
  \/ StartTick
  \/ UpdateFriendly
  \/ UpdateHostile
  \/ CasualtyPartition
  \/ PublishStats

SpecRescue == InitRescue /\ [][NextRescue]_vars /\ WF_vars(NextRescue)

\* A swarm that has nothing left to move it but the rescue call: no asset and
\* no hostile, one friendly that carries a lost-mark, and every other
\* friendly unmarked, within 1 of that mark (where moveTo moves no more),
\* within the lost radius of the centroid and 100 or more from the marked one.
ParkedOnMark ==
  /\ communication
  /\ groundAssets = << >>
  /\ hostileDrones = << >>
  /\ Len(friendlyDrones) >= 2
  /\ \E l \in 1..Len(friendlyDrones) :
        /\ friendlyDrones[l].lostCoords # NoCoords
        /\ \A r \in 1..Len(friendlyDrones) :
              /\ friendlyDrones[r].health > 0
              /\ r # l =>
                   (/\ friendlyDrones[r].lostCoords = NoCoords
                    /\ Abs(friendlyDrones[r].x - friendlyDrones[l].lostCoords[1]) <= U
                    /\ Abs(friendlyDrones[r].x - friendlyDrones[l].x) >= RECONNECT_RADIUS
                    /\ ~FarFromSwarm(friendlyDrones, r))

C36_ParkedForGood ==
  [][ParkedOnMark =>
       /\ ParkedOnMark'
       /\ pc = "friendly" =>
            (/\ friendlyDrones'[idx].x = friendlyDrones[idx].x
             /\ friendlyDrones'[idx].lostCoords = friendlyDrones[idx].lostCoords
             /\ friendlyDrones[idx].lostCoords = NoCoords => last'.log.rescue)]_vars

\* C37: in arrowhead, spearhead, double-file and extended-line, for every
\* roster size, two distinct indices of the roster never get the same slot
\* offset: the slot computed for an index is the slot of no other index.
C37_SlotsDistinct ==
  slot # NoSlot =>
    \A j \in 0..(slot.rosterSize - 1) :
       j # slot.index => SlotOffset(slot.formation, j, slot.rosterSize) # slot.offset

\* The slot of index 2 of an arrowhead of three or more: one spacing to the
\* right in the first row behind the point, mirrored from index 1.
C37_Witness ==
  /\ slot.formation = "arrowhead"
  /\ slot.index = 2
  /\ slot.rosterSize >= 3
  /\ slot.offset = <<SLOT_SPACING, -(SLOT_SPACING \div 2)>>
  /\ SlotOffset("arrowhead", 1, slot.rosterSize) = <<-SLOT_SPACING, -(SLOT_SPACING \div 2)>>

\* C38: between two initialisations the base integrity of every published
\* statistics snapshot is within 0..100 and never greater than that of the
\* snapshot published before it.
C38_IntegrityNeverRises ==
  /\ [](stats.integrity \in 0..100)
  /\ [][stats'.integrity <= stats.integrity]_vars

\* The second of two scheduled publishes in a row has just run, with less
\* than the whole of the assets' health left and an asset hit since the first.
C38_Witness ==
  /\ pc = "idle"
  /\ tick = 2
  /\ lastUiUpdate = now
  /\ now - StartTime = 2 * 120
  /\ stats.integrity < 100
  /\ last.side = "hostile"
  /\ last.log.fired
  /\ last.log.mode = "asset"

====
